---- MODULE Spec2Model ----
(***************************************************************************)
(* Model of the TAK Server MCP tools: the reconciliation of CoT events     *)
(* into entities (TAKServerClient.getEntities) and the tools built on it   *)
(* (tak_get_entities, tak_find_nearest, tak_spatial_query,                 *)
(* tak_calculate_distance, tak_create_geofence, tak_analyze_movement,      *)
(* tak_send_cot_event, tak_send_emergency, tak_subscribe_events), the MCP  *)
(* server's tools/list and tools/call, its HTTP and SSE transports, and    *)
(* the MCPClient over WebSocket.                                           *)
(*                                                                         *)
(* Time is counted in minutes.  Positions lie on one meridian (lon = 0)    *)
(* and lat is counted in half metres along it, so that the great-circle    *)
(* distance of two positions is |lat1 - lat2| half metres and Math.round   *)
(* has something to round.                                                 *)
(***************************************************************************)
EXTENDS Integers, Sequences, FiniteSets, TLC

\* ---------------------------------------------------------------- bounds
MaxEvents == 2        \* events the TAK server holds
MaxTime == 2          \* largest valid event time
MaxPos == 2           \* largest lat, in half metres
MaxNow == 6           \* the clock stops here
MaxBatch == 2         \* destinations in one batch of tak_calculate_distance
MaxConnections == 3   \* GET /sse connections one run makes

\* ------------------------------------------------------ program constants
EventLimit == 1000        \* getEntities: limit: 1000
UnknownValue == 999999    \* parseCotEvent / getEntities: the CoT "unknown" sentinel
InvalidDate == -1         \* new Date(x) of an unparsable x: compares false with everything
NaN == -2                \* parseFloat of an attribute that is left out

Undefined == "undefined"  \* an absent string field
Unknown == "Unknown"      \* getEntities: default team and role

\* An optional parameter is the empty set (absent) or a singleton (present).
None == {}
Some(x) == {x}
The(opt) == CHOOSE x \in opt : TRUE

VARIABLES
  events,        \* the CoT events the TAK server holds, oldest first (raw, as decoded from XML)
  now,           \* the wall clock, new Date()
  gePc,          \* position of the getEntities call: "idle", "fold", "done"
  geParams,      \* its params
  geEvents,      \* const events = await this.getCotEvents(...)
  geIdx,         \* position of the for loop in geEvents
  entitiesMap,   \* the Map<string, TAKEntity>, in insertion order
  geResult,      \* Array.from(entitiesMap.values())
  call,          \* the tool handler that is running: its params and what it holds across an await
  result,        \* what the tool handler returned
  sent,          \* the CoT messages sendCotEvent has posted to /Marti/api/cot/submit
  containment,   \* Geofence Evaluator: per entity, inside / enteredAt / dwell alert raised
  alerts,        \* Geofence Evaluator: the alerts raised so far, oldest first
  alertsPosted,  \* the alerts sendAlert has posted to /Marti/api/alerts
  ws,            \* TAKServerClient.ws: the WebSocket the client holds, if any
  sockets,       \* the WebSockets subscribeToCotEvents has created, oldest first
  timers,        \* the setTimeout callbacks of tak_subscribe_events that have not run yet
  config,        \* main: const config = getConfig(), once the server has started
  listed,        \* the answer to the last tools/list request
  executed,      \* the names of the tools whose handler tools/call has run
  httpLog,       \* HttpServerTransport: the POST requests answered, oldest first
  connections,   \* SSEServerTransport: the GET /sse connections, oldest first
  clients,       \* SSEServerTransport.clients: the Map of client id to SSEClient
  wsOpen,        \* MCPClient.ws is set and its readyState is OPEN
  requestId,     \* MCPClient.requestId
  pendingRequests, \* MCPClient.pendingRequests: the ids whose promise is not settled
  rpcTimers,     \* MCPClient.wsCall: the 30 s setTimeout callbacks that have not run yet
  settled        \* MCPClient.wsCall: per request id, how its promise was settled

vars == <<events, now, gePc, geParams, geEvents, geIdx, entitiesMap, geResult, call, result,
          sent, containment, alerts, alertsPosted, ws, sockets, timers, config, listed,
          executed, httpLog, connections, clients, wsOpen, requestId, pendingRequests,
          rpcTimers, settled>>

\* ------------------------------------------------------------ sequences
Range(s) == {s[i] : i \in 1..Len(s)}

RECURSIVE SeqFilter(_, _)
\* Array.prototype.filter with the elements kept given as a set of indices
SeqFilter(s, keep) ==
  IF s = <<>> THEN <<>>
  ELSE LET n == Len(s)
           front == SeqFilter(SubSeq(s, 1, n - 1), keep)
       IN IF n \in keep THEN Append(front, s[n]) ELSE front

\* s.slice(0, n)
Slice(s, n) == SubSeq(s, 1, IF n < Len(s) THEN n ELSE Len(s))

IsPrefix(p, s) == Len(p) <= Len(s) /\ SubSeq(s, 1, Len(p)) = p

\* ---------------------------------------------------------------- dates
\* a > b on two Dates: false as soon as one of them is an Invalid Date
DateGT(a, b) == a # InvalidDate /\ b # InvalidDate /\ a > b

\* -------------------------------------------------------- parseCotEvent
\* parseFloat(x) || 999999: parseFloat of an attribute left out is NaN, and NaN
\* and 0 are both falsy
OrUnknown(x) == IF x = NaN \/ x = 0 THEN UnknownValue ELSE x

ParseCotEvent(eventData) ==
  [uid   |-> eventData.uid,
   type  |-> eventData.type,
   time  |-> eventData.time,
   stale |-> eventData.stale,
   point |-> [lat |-> eventData.lat, lon |-> eventData.lon,
              hae |-> OrUnknown(eventData.hae),
              ce  |-> OrUnknown(eventData.ce),
              le  |-> OrUnknown(eventData.le)],
   team  |-> eventData.team,
   role  |-> eventData.role]

\* --------------------------------------------------------- getCotEvents
\* event.type.startsWith(t), types being sequences of the '-' separated parts
StartsWith(type, t) == IsPrefix(t, type)

\* The history branch ('*'): every event of the server, parsed, filtered by
\* type prefix when types is given, cut to limit.  bbox is accepted and unused.
GetCotEvents(evs, types, bbox, limit) ==
  LET parsed == [i \in 1..Len(evs) |-> ParseCotEvent(evs[i])]
      keep == {i \in 1..Len(parsed) :
                 types = None \/ \E t \in The(types) : StartsWith(parsed[i].type, t)}
      kept == SeqFilter(parsed, keep)
  IN IF Len(kept) > limit THEN Slice(kept, limit) ELSE kept

\* ---------------------------------------------------------- getEntities
MapHas(map, uid) == \E i \in 1..Len(map) : map[i].uid = uid
MapGet(map, uid) == map[CHOOSE i \in 1..Len(map) : map[i].uid = uid]
\* Map.set: a new key goes last, an existing key keeps its place
MapSet(map, uid, entity) ==
  IF MapHas(map, uid)
  THEN [i \in 1..Len(map) |-> IF map[i].uid = uid THEN entity ELSE map[i]]
  ELSE Append(map, entity)

\* the TAKEntity built from one event at clock reading clock
BuildEntity(event, clock) ==
  [uid        |-> event.uid,
   type       |-> event.type,
   team       |-> IF event.team = Undefined THEN Unknown ELSE event.team,
   role       |-> IF event.role = Undefined THEN Unknown ELSE event.role,
   location   |-> [lat |-> event.point.lat, lon |-> event.point.lon,
                   alt |-> IF event.point.hae # UnknownValue
                           THEN Some(event.point.hae) ELSE None],
   lastUpdate |-> event.time,
   stale      |-> event.stale,
   online     |-> DateGT(event.stale, clock)]

\* mutant of IsNewer: the last event delivered wins, whatever its time
IsNewerLastWins(map, event) == TRUE

\* mutant of IsNewer: >= where the code has >
IsNewerOrEqual(map, event) ==
  \/ ~MapHas(map, event.uid)
  \/ ~DateGT(MapGet(map, event.uid).lastUpdate, event.time)

\* event replaces what is stored for its uid
IsNewer(map, event) ==
  \/ ~MapHas(map, event.uid)
  \/ DateGT(event.time, MapGet(map, event.uid).lastUpdate)

\* one iteration of the for loop
FoldStep(map, event, params, clock) ==
  IF IsNewer(map, event)
  THEN LET entity == BuildEntity(event, clock)
       IN IF params.teams # None /\ entity.team \notin The(params.teams) THEN map
          ELSE IF params.roles # None /\ entity.role \notin The(params.roles) THEN map
          ELSE MapSet(map, event.uid, entity)
  ELSE map

RECURSIVE Fold(_, _, _, _)
Fold(map, evs, params, clock) ==
  IF evs = <<>> THEN map
  ELSE Fold(FoldStep(map, Head(evs), params, clock), Tail(evs), params, clock)

\* getEntities as one call: what the tools await
GetEntities(evs, params, clock) ==
  Fold(<<>>, GetCotEvents(evs, params.types, params.bbox, EventLimit), params, clock)

NoParams == [types |-> None, teams |-> None, roles |-> None, bbox |-> None]

\* ------------------------------------------------------------ the inputs
UIDs == {"u1", "u2"}
FriendlyGround == <<"a", "f", "G">>
HostileGround == <<"a", "h", "G">>
Types == {FriendlyGround, HostileGround}
Times == {InvalidDate} \cup (1..MaxTime)
FarFuture == MaxNow + 10

\* the events of the reconciliation runs: uid, type, time and group vary
BaseEvent ==
  [uid |-> "u1", type |-> FriendlyGround, time |-> MaxTime, stale |-> FarFuture,
   lat |-> 0, lon |-> 0, hae |-> 100, ce |-> 10, le |-> 10,
   team |-> Undefined, role |-> Undefined]

StoreEvents ==
  {[BaseEvent EXCEPT !.uid = u, !.type = ty, !.time = t, !.team = g[1], !.role = g[2]] :
     u \in UIDs, ty \in Types, t \in Times,
     g \in {<<Undefined, Undefined>>, <<"Blue", "Medic">>}}

\* bbox is [minLon, minLat, maxLon, maxLat]
NorthBox == <<0, 1, 0, MaxPos>>
InBox(location, bbox) ==
  /\ bbox[1] <= location.lon /\ location.lon <= bbox[3]
  /\ bbox[2] <= location.lat /\ location.lat <= bbox[4]

StoreParams ==
  {NoParams,
   [NoParams EXCEPT !.types = Some({<<"a", "f">>})],
   [NoParams EXCEPT !.teams = Some({"Blue"})],
   [NoParams EXCEPT !.roles = Some({"Medic"})],
   [NoParams EXCEPT !.bbox = Some(NorthBox)],
   [NoParams EXCEPT !.types = Some({<<"a", "f">>}), !.teams = Some({"Blue"})]}

\* the ids of the SSE clients: the X-Client-ID headers and the uuidv4() values
Uuids == [n \in 1..MaxConnections |-> <<"uuid", n>>]
ClientIds == {<<"c1">>, <<"c2">>} \cup Range(Uuids)

\* ---------------------------------------------------------------- state
NoCall == [tool |-> "none"]
\* Geofence Evaluator: the state OUTSIDE of one (geofence, entity) pair
Outside == [inside |-> FALSE, enteredAt |-> None, dwellRaised |-> FALSE]

Init ==
  /\ events = <<>>
  /\ now = 0
  /\ gePc = "idle"
  /\ geParams = NoParams
  /\ geEvents = <<>>
  /\ geIdx = 1
  /\ entitiesMap = <<>>
  /\ geResult = <<>>
  /\ call = NoCall
  /\ result = NoCall
  /\ sent = <<>>
  /\ containment = [u \in UIDs |-> Outside]
  /\ alerts = <<>>
  /\ alertsPosted = <<>>
  /\ ws = None
  /\ sockets = <<>>
  /\ timers = {}
  /\ config = None
  /\ listed = None
  /\ executed = <<>>
  /\ httpLog = <<>>
  /\ connections = <<>>
  /\ clients = [id \in ClientIds |-> None]
  /\ wsOpen = FALSE
  /\ requestId = 0
  /\ pendingRequests = {}
  /\ rpcTimers = {}
  /\ settled = <<>>

NoResult == result.tool = "none"
toolVars == <<call, result>>
fxVars == <<sent, containment, alerts>>
subVars == <<ws, sockets, timers>>
mcpVars == <<config, listed, executed, httpLog>>
sseVars == <<connections, clients>>
rpcVars == <<wsOpen, requestId, pendingRequests, rpcTimers, settled>>
ioVars == <<subVars, mcpVars, sseVars, rpcVars>>
netVars == <<alertsPosted, ioVars>>
geVars == <<gePc, geParams, geEvents, geIdx, entitiesMap, geResult>>

\* The TAK server stores one more event.
ReceiveEvent(e) ==
  /\ Len(events) < MaxEvents
  /\ events' = Append(events, e)
  /\ UNCHANGED <<now, geVars, toolVars, fxVars, netVars>>

\* The clock advances by one minute.
Tick ==
  /\ now < MaxNow
  /\ now' = now + 1
  /\ UNCHANGED <<events, geVars, toolVars, fxVars, netVars>>

\* getEntities, up to the for loop: await getCotEvents, new Map
GetEntitiesCall(params) ==
  /\ gePc = "idle"
  /\ gePc' = "fold"
  /\ geParams' = params
  /\ geEvents' = GetCotEvents(events, params.types, params.bbox, EventLimit)
  /\ geIdx' = 1
  /\ entitiesMap' = <<>>
  /\ UNCHANGED <<events, now, geResult, toolVars, fxVars, netVars>>

\* one iteration of for (const event of events)
GetEntitiesStep ==
  /\ gePc = "fold"
  /\ geIdx <= Len(geEvents)
  /\ entitiesMap' = FoldStep(entitiesMap, geEvents[geIdx], geParams, now)
  /\ geIdx' = geIdx + 1
  /\ UNCHANGED <<events, now, gePc, geParams, geEvents, geResult, toolVars, fxVars, netVars>>

\* return Array.from(entitiesMap.values())
GetEntitiesReturn ==
  /\ gePc = "fold"
  /\ geIdx > Len(geEvents)
  /\ gePc' = "done"
  /\ geResult' = entitiesMap
  /\ UNCHANGED <<events, now, geParams, geEvents, geIdx, entitiesMap, toolVars, fxVars, netVars>>

StoreNext ==
  \/ \E e \in StoreEvents : gePc = "idle" /\ ReceiveEvent(e)
  \/ \E params \in StoreParams : GetEntitiesCall(params)
  \/ GetEntitiesStep
  \/ GetEntitiesReturn

SpecStore == Init /\ [][StoreNext]_vars

\* ------------------------------------------------------------------------
\* Reconciliation (C1 - C3)
\* ------------------------------------------------------------------------
\* the orders in which the events of s can be handed over
Orders(s) ==
  {[i \in 1..Len(s) |-> s[f[i]]] :
     f \in {g \in [1..Len(s) -> 1..Len(s)] : \A i, j \in 1..Len(s) : g[i] = g[j] => i = j}}

OfUid(s, uid) == SeqFilter(s, {i \in 1..Len(s) : s[i].uid = uid})
ValidTimes(s) == \A i \in 1..Len(s) : s[i].time # InvalidDate
MaxTimeOf(s) ==
  CHOOSE t \in {s[i].time : i \in 1..Len(s)} : \A i \in 1..Len(s) : s[i].time <= t
NoGroupFilter(params) == params.teams = None /\ params.roles = None

\* the event that decides the entity of a non-empty s of one uid: the first one
\* when its time is no valid date, else the first one with the maximum time
Winner(s) ==
  IF s[1].time = InvalidDate THEN s[1]
  ELSE s[CHOOSE i \in 1..Len(s) :
           /\ s[i].time = MaxTimeOf(s)
           /\ \A j \in 1..(i - 1) : s[j].time # MaxTimeOf(s)]

\* C1 (as amended): with no team/role filter, in whatever order the events are
\* handed to getEntities, the entity returned for a uid is the one built from the
\* first event delivered among those of the uid with the maximum time (from the
\* first event delivered when its time is no valid date); so two orders that
\* agree on that event yield the same entity.
C1_FirstMaxWins ==
  (gePc = "done" /\ NoGroupFilter(geParams)) =>
    \A perm \in Orders(geEvents) :
      LET r == IF perm = geEvents THEN geResult ELSE Fold(<<>>, perm, geParams, now)
      IN \A u \in UIDs :
           LET mine == OfUid(perm, u)
           IN IF mine = <<>> THEN ~MapHas(r, u)
              ELSE MapHas(r, u) /\ MapGet(r, u) = BuildEntity(Winner(mine), now)

\* C1 witness: two events of one uid, the older one delivered last, and the
\* entity returned is the one built from the newer, first one
C1_Witness ==
  /\ gePc = "done" /\ NoGroupFilter(geParams)
  /\ Len(geEvents) = 2
  /\ geEvents[1].uid = geEvents[2].uid
  /\ DateGT(geEvents[1].time, geEvents[2].time)
  /\ geResult = <<BuildEntity(geEvents[1], now)>>

\* C1 (as claimed), for events with valid times: every permutation of the events
\* yields, for each uid, the same entity as the order delivered
C1_Original ==
  (gePc = "done" /\ NoGroupFilter(geParams) /\ ValidTimes(geEvents)) =>
    \A perm \in Orders(geEvents) :
      LET r == Fold(<<>>, perm, geParams, now)
      IN \A u \in UIDs :
           MapHas(geResult, u) => (MapHas(r, u) /\ MapGet(r, u) = MapGet(geResult, u))

\* C2: in every iteration of the fold an entity already stored stays as it is or
\* is replaced by one with a strictly newer lastUpdate, and an event whose time
\* is equal to or older than the stored lastUpdate leaves the map unchanged
C2_NonRegression ==
  [][(gePc = "fold" /\ geIdx <= Len(geEvents)) =>
       LET event == geEvents[geIdx]
       IN /\ \A i \in 1..Len(entitiesMap) :
               /\ Len(entitiesMap') >= i
               /\ entitiesMap'[i].uid = entitiesMap[i].uid
               /\ \/ entitiesMap'[i] = entitiesMap[i]
                  \/ DateGT(entitiesMap'[i].lastUpdate, entitiesMap[i].lastUpdate)
          /\ (/\ MapHas(entitiesMap, event.uid)
              /\ event.time # InvalidDate
              /\ MapGet(entitiesMap, event.uid).lastUpdate # InvalidDate
              /\ event.time <= MapGet(entitiesMap, event.uid).lastUpdate)
             => entitiesMap' = entitiesMap]_vars

\* C2 witness: the second event of a uid, not newer than the first and different
\* from it, has been folded and the entity of the first event is still stored
C2_Witness ==
  /\ gePc = "fold" /\ geIdx = 3
  /\ geEvents[1].uid = geEvents[2].uid
  /\ geEvents[1] # geEvents[2]
  /\ ValidTimes(geEvents)
  /\ geEvents[2].time <= geEvents[1].time
  /\ entitiesMap = <<BuildEntity(geEvents[1], now)>>

\* entity passes every filter of params
TypeMatches(entity, params) ==
  params.types = None \/ \E t \in The(params.types) : StartsWith(entity.type, t)
Satisfies(entity, params) ==
  /\ TypeMatches(entity, params)
  /\ params.teams = None \/ entity.team \in The(params.teams)
  /\ params.roles = None \/ entity.role \in The(params.roles)
  /\ params.bbox = None \/ InBox(entity.location, The(params.bbox))

\* the server's events have valid times and, for each uid, one latest report
OneLatest(evs) ==
  /\ ValidTimes(evs)
  /\ \A i, j \in 1..Len(evs) : (evs[i].uid = evs[j].uid /\ evs[i].time = evs[j].time) => i = j
LatestEntity(evs, uid, clock) ==
  LET mine == OfUid([i \in 1..Len(evs) |-> ParseCotEvent(evs[i])], uid)
  IN BuildEntity(Winner(mine), clock)

\* C3 (as claimed, for the type, team and role filters): getEntities(filters)
\* returns exactly the uids whose latest report satisfies every filter, each with
\* that latest report
C3_Original ==
  (gePc = "done" /\ geParams.bbox = None /\ OneLatest(events)) =>
    \A u \in UIDs :
      LET reported == \E i \in 1..Len(events) : events[i].uid = u
      IN /\ MapHas(geResult, u) <=>
              (reported /\ Satisfies(LatestEntity(events, u, now), geParams))
         /\ MapHas(geResult, u) => MapGet(geResult, u) = LatestEntity(events, u, now)

\* ------------------------------------------------------------------------
\* The tools
\* ------------------------------------------------------------------------
Abs(x) == IF x < 0 THEN 0 - x ELSE x

\* turf.distance(p, q, {units: 'meters'}) of two [lat, lon] on the meridian,
\* in half metres
TurfDistance(c1, c2) == Abs(c1[1] - c2[1])

\* Math.round of a length given in half metres: whole metres, a half rounds up
MathRound(halfMetres) == (halfMetres + 1) \div 2

Coords(entity) == <<entity.location.lat, entity.location.lon>>

\* s.map(f) for the elements kept by s.filter: the indices of s satisfying keep(_)
Keep(s, keep(_)) == SeqFilter(s, {i \in 1..Len(s) : keep(s[i])})

\* a handler's catch block: success false, the code of the tool, the message thrown
Failure(tool, code, details) ==
  [tool |-> tool, success |-> FALSE, code |-> code, details |-> details]
NotFound(entityId) == <<"Entity", entityId, "not found">>
NoPoint == <<"Either entityId or coordinates must be provided">>

\* the catch blocks of tak_find_nearest and tak_calculate_distance
FindNearestCatch(message) == Failure("tak_find_nearest", "TAK_QUERY_ERROR", message)
CalcDistanceCatch(message) ==
  Failure("tak_calculate_distance", "TAK_CALCULATION_ERROR", message)

\* ------------------------------------------------------- tak_get_entities
\* the filter of activeEntities: lastUpdate within 5 minutes of now
RecentlyUpdated(entity, clock) ==
  entity.lastUpdate # InvalidDate /\ clock - entity.lastUpdate < 5

GetEntitiesTool(params) ==
  /\ call = NoCall /\ NoResult
  /\ LET entities == GetEntities(events, params, now)
         activeEntities ==
           IF params.includeStale = Some(TRUE) THEN entities
           ELSE Keep(entities, LAMBDA e : RecentlyUpdated(e, now))
     IN result' = [tool |-> "tak_get_entities", success |-> TRUE,
                   totalCount |-> Len(activeEntities), entities |-> activeEntities]
  /\ call' = [tool |-> "tak_get_entities", pc |-> "done", params |-> params]
  /\ UNCHANGED <<events, now, geVars, fxVars, netVars>>

\* ------------------------------------------------------- tak_find_nearest
\* entityTypes: a pattern with '*' is the regular expression ^pattern$ with
\* '*' replaced by '.*' (patterns end with the '*'), another one is compared whole
PatternMatches(type, pattern) ==
  IF pattern # <<>> /\ pattern[Len(pattern)] = "*"
  THEN Len(type) >= Len(pattern) /\ IsPrefix(SubSeq(pattern, 1, Len(pattern) - 1), type)
  ELSE type = pattern

\* the filter of excludeStale: updated less than 300 seconds ago
UpdatedWithin300s(entity, clock) ==
  entity.lastUpdate # InvalidDate /\ (clock - entity.lastUpdate) * 60 < 300

\* filteredEntities
FilteredEntities(allEntities, params, clock) ==
  LET others == IF params.entityId # None
                THEN Keep(allEntities, LAMBDA e : e.uid # The(params.entityId))
                ELSE allEntities
      typed == IF params.entityTypes # None /\ The(params.entityTypes) # {}
               THEN Keep(others, LAMBDA e :
                           \E pat \in The(params.entityTypes) : PatternMatches(e.type, pat))
               ELSE others
  IN IF params.excludeStale # Some(FALSE)
     THEN Keep(typed, LAMBDA e : UpdatedWithin300s(e, clock))
     ELSE typed

\* one element of entitiesWithDistance
WithDistance(entity, referenceCoords) ==
  [uid |-> entity.uid, entity |-> entity,
   distance |-> MathRound(TurfDistance(referenceCoords, Coords(entity))),
   location |-> [lat |-> entity.location.lat, lon |-> entity.location.lon,
                 hae |-> IF entity.location.alt = None THEN 0 ELSE The(entity.location.alt)]]

\* maxDistance is used when it is given and not 0
UsesMaxDistance(maxDistance) == maxDistance # None /\ The(maxDistance) # 0

\* mutant of SortByDistance: the results are left in the order of the entities
NotSorted(items) == items

RECURSIVE SortByDistance(_)
\* results.sort((a, b) => a.distance - b.distance): stable
SortByDistance(items) ==
  IF items = <<>> THEN <<>>
  ELSE LET n == Len(items)
           last == items[n]
           front == SortByDistance(SubSeq(items, 1, n - 1))
           before == Keep(front, LAMBDA x : x.distance <= last.distance)
           after == Keep(front, LAMBDA x : x.distance > last.distance)
       IN before \o <<last>> \o after

NearestEntities(allEntities, referenceCoords, params, clock) ==
  LET filtered == FilteredEntities(allEntities, params, clock)
      entitiesWithDistance ==
        [i \in 1..Len(filtered) |-> WithDistance(filtered[i], referenceCoords)]
      within == IF UsesMaxDistance(params.maxDistance)
                THEN Keep(entitiesWithDistance,
                          LAMBDA x : x.distance <= The(params.maxDistance))
                ELSE entitiesWithDistance
  IN Slice(SortByDistance(within),
           IF params.maxResults = None \/ The(params.maxResults) = 0
           THEN 10 ELSE The(params.maxResults))

\* the handler up to its second await: the reference coordinates, from the
\* params or from the entity of a first getEntities
FindNearestCall(params) ==
  /\ call = NoCall /\ NoResult
  /\ LET entities == GetEntities(events, NoParams, now)
         Running(coords) == [tool |-> "tak_find_nearest", pc |-> "entities",
                             params |-> params, referenceCoords |-> Some(coords)]
         Thrown == [tool |-> "tak_find_nearest", pc |-> "done",
                    params |-> params, referenceCoords |-> None]
     IN IF params.coordinates # None
        THEN call' = Running(The(params.coordinates)) /\ UNCHANGED result
        ELSE IF params.entityId # None
        THEN IF MapHas(entities, The(params.entityId))
             THEN /\ call' = Running(Coords(MapGet(entities, The(params.entityId))))
                  /\ UNCHANGED result
             ELSE /\ result' = FindNearestCatch(NotFound(The(params.entityId)))
                  /\ call' = Thrown
        ELSE /\ result' = FindNearestCatch(NoPoint)
             /\ call' = Thrown
  /\ UNCHANGED <<events, now, geVars, fxVars, netVars>>

\* the rest of the handler: allEntities, the filters, the distances, the sort
FindNearestReturn ==
  /\ call.tool = "tak_find_nearest" /\ call.pc = "entities"
  /\ LET allEntities == GetEntities(events, NoParams, now)
         referenceCoords == The(call.referenceCoords)
     IN result' = [tool |-> "tak_find_nearest", success |-> TRUE,
                   referenceCoords |-> referenceCoords,
                   totalEntities |-> Len(allEntities),
                   nearestEntities |->
                     NearestEntities(allEntities, referenceCoords, call.params, now)]
  /\ call' = [call EXCEPT !.pc = "done"]
  /\ UNCHANGED <<events, now, geVars, fxVars, netVars>>

\* ------------------------------------------------------ tak_spatial_query
\* takClient.spatialQuery posts the query to /Marti/api/spatial/query and hands
\* back response.data as it comes: some of the events the server holds
SpatialQueryAnswers(evs) == {SeqFilter(evs, S) : S \in SUBSET (1..Len(evs))}

\* one element of enrichedResults; distanceFromCenter stays null unless center
\* and radius are both truthy
Enriched(event, params) ==
  [uid |-> event.uid, type |-> event.type,
   location |-> [lat |-> event.lat, lon |-> event.lon, alt |-> event.hae],
   time |-> event.time, stale |-> event.stale,
   distanceFromCenter |->
     IF params.radius # None /\ The(params.radius) # 0
     THEN Some(TurfDistance(params.center, <<event.lat, event.lon>>))
     ELSE None]

SpatialQueryTool(params) ==
  /\ call = NoCall /\ NoResult
  /\ \E found \in SpatialQueryAnswers(events) :
       LET filteredEvents == IF params.includeStale = Some(TRUE) THEN found
                             ELSE Keep(found, LAMBDA e : DateGT(e.stale, now))
           enrichedResults ==
             [i \in 1..Len(filteredEvents) |-> Enriched(filteredEvents[i], params)]
       IN /\ result' = [tool |-> "tak_spatial_query", success |-> TRUE,
                        totalCount |-> Len(enrichedResults), results |-> enrichedResults]
          /\ call' = [tool |-> "tak_spatial_query", pc |-> "done", params |-> params,
                      events |-> found]
  /\ UNCHANGED <<events, now, geVars, fxVars, netVars>>

\* ------------------------------------------------- tak_calculate_distance
Pending == [pending |-> TRUE]

\* getCoordinates: the coordinates of a point, or the message thrown
GetCoordinates(point, evs, clock) ==
  IF point.coordinates # None THEN [ok |-> TRUE, coords |-> The(point.coordinates)]
  ELSE IF point.entityId # None
  THEN LET entities == GetEntities(evs, NoParams, clock)
           uid == The(point.entityId)
       IN IF MapHas(entities, uid)
          THEN [ok |-> TRUE, coords |-> Coords(MapGet(entities, uid))]
          ELSE [ok |-> FALSE, message |-> NotFound(uid)]
  ELSE [ok |-> FALSE, message |-> NoPoint]

\* the value of one element of the batch: the try block or its catch block
BatchEntry(destination, fromCoords, evs, clock) ==
  LET got == GetCoordinates(destination, evs, clock)
  IN IF got.ok
     THEN [pending |-> FALSE,
           to |-> [entityId |-> destination.entityId, coordinates |-> Some(got.coords)],
           distance |-> Some(TurfDistance(fromCoords, got.coords)), error |-> None]
     ELSE [pending |-> FALSE, to |-> destination, distance |-> None,
           error |-> Some(got.message)]

\* mutant of BatchResponse: one destination that fails fails the call
BatchResponseAllOrNothing(params, fromCoords, results) ==
  IF \E i \in 1..Len(results) : results[i].error # None
  THEN CalcDistanceCatch((CHOOSE r \in Range(results) : r.error # None).error)
  ELSE [tool |-> "tak_calculate_distance", success |-> TRUE,
        fromCoords |-> fromCoords, distances |-> results,
        totalCalculations |-> Len(The(params.batch)),
        successfulCalculations |-> Len(results)]

\* the response of a batch call once every destination is settled
BatchResponse(params, fromCoords, results) ==
  LET validResults == Keep(results, LAMBDA r : r.error = None)
  IN [tool |-> "tak_calculate_distance", success |-> TRUE,
      fromCoords |-> fromCoords, distances |-> results,
      totalCalculations |-> Len(The(params.batch)),
      successfulCalculations |-> Len(validResults)]

\* the handler up to the destination(s): the coordinates of from
CalcDistanceCall(params) ==
  /\ call = NoCall /\ NoResult
  /\ LET from == GetCoordinates(params.from, events, now)
         Running(pc, results) ==
           [tool |-> "tak_calculate_distance", pc |-> pc, params |-> params,
            fromCoords |-> IF from.ok THEN Some(from.coords) ELSE None,
            results |-> results]
     IN IF ~from.ok
        THEN /\ result' = CalcDistanceCatch(from.message)
             /\ call' = Running("done", <<>>)
        ELSE IF params.to # None
        THEN call' = Running("to", <<>>) /\ UNCHANGED result
        ELSE IF params.batch # None
        THEN /\ call' = Running("batch", [i \in 1..Len(The(params.batch)) |-> Pending])
             /\ UNCHANGED result
        ELSE \* neither if is taken: the handler ends without a return statement
             /\ result' = [tool |-> "tak_calculate_distance", returned |-> Undefined]
             /\ call' = Running("done", <<>>)
  /\ UNCHANGED <<events, now, geVars, fxVars, netVars>>

\* the single calculation
CalcDistanceTo ==
  /\ call.tool = "tak_calculate_distance" /\ call.pc = "to"
  /\ LET to == GetCoordinates(The(call.params.to), events, now)
         fromCoords == The(call.fromCoords)
     IN result' = IF to.ok
                  THEN [tool |-> "tak_calculate_distance", success |-> TRUE,
                        fromCoords |-> fromCoords,
                        toCoords |-> to.coords,
                        distance |-> TurfDistance(fromCoords, to.coords)]
                  ELSE CalcDistanceCatch(to.message)
  /\ call' = [call EXCEPT !.pc = "done"]
  /\ UNCHANGED <<events, now, geVars, fxVars, netVars>>

\* one destination of the batch settles; the destinations are resolved
\* concurrently (Promise.all), in any order
CalcDistanceItem(i) ==
  /\ call.tool = "tak_calculate_distance" /\ call.pc = "batch"
  /\ i \in 1..Len(call.results)
  /\ call.results[i].pending
  /\ call' = [call EXCEPT !.results[i] =
                BatchEntry(The(call.params.batch)[i], The(call.fromCoords), events, now)]
  /\ UNCHANGED <<events, now, geVars, result, fxVars, netVars>>

\* Promise.all is fulfilled: the batch response
CalcDistanceReturn ==
  /\ call.tool = "tak_calculate_distance" /\ call.pc = "batch"
  /\ \A i \in 1..Len(call.results) : ~call.results[i].pending
  /\ result' = BatchResponse(call.params, The(call.fromCoords), call.results)
  /\ call' = [call EXCEPT !.pc = "done"]
  /\ UNCHANGED <<events, now, geVars, fxVars, netVars>>

NearestDefaults ==
  [entityId |-> None, coordinates |-> None, maxDistance |-> None, maxResults |-> None,
   entityTypes |-> None, excludeStale |-> None]

\* ------------------------------------------------------------------------
\* Staleness (C4)
\* ------------------------------------------------------------------------
\* the events of the staleness runs: time and stale vary, stale is soon after
\* time or far away
StaleEvents ==
  {[BaseEvent EXCEPT !.uid = u, !.time = t, !.stale = st] :
     u \in UIDs, t \in 1..MaxTime, st \in {MaxTime + 1, FarFuture}}

EntitiesParams ==
  {[types |-> None, teams |-> None, roles |-> None, bbox |-> None, includeStale |-> i] :
     i \in {None, Some(FALSE), Some(TRUE)}}

StaleNearestParams ==
  {[NearestDefaults EXCEPT !.coordinates = Some(<<0, 0>>), !.excludeStale = x] :
     x \in {None, Some(TRUE), Some(FALSE)}}

StaleNext ==
  \/ \E e \in StaleEvents : NoResult /\ ReceiveEvent(e)
  \/ NoResult /\ Tick
  \/ \E params \in EntitiesParams : GetEntitiesTool(params)
  \/ \E params \in StaleNearestParams : FindNearestCall(params)
  \/ FindNearestReturn

SpecStale == Init /\ [][StaleNext]_vars

\* now > validUntil
IsStale(entity, clock) == DateGT(clock, entity.stale)

\* C4 (as claimed): when stale entities are excluded, an entity of the current
\* state is dropped exactly when the query time is later than its stale instant
C4_Original ==
  /\ (result.tool = "tak_get_entities" /\ call.params.includeStale # Some(TRUE)) =>
       LET entities == GetEntities(events, call.params, now)
       IN \A i \in 1..Len(entities) :
            MapHas(result.entities, entities[i].uid) <=> ~IsStale(entities[i], now)
  /\ (result.tool = "tak_find_nearest" /\ result.success
        /\ call.params.excludeStale # Some(FALSE)) =>
       LET allEntities == GetEntities(events, NoParams, now)
       IN \A i \in 1..Len(allEntities) :
            MapHas(result.nearestEntities, allEntities[i].uid)
              <=> ~IsStale(allEntities[i], now)

\* ------------------------------------------------------------------------
\* tak_find_nearest (C5 - C7)
\* ------------------------------------------------------------------------
\* the events of the geospatial runs: uid, position and type vary
GeoEvents ==
  {[BaseEvent EXCEPT !.uid = u, !.lat = p, !.type = ty] :
     u \in UIDs, p \in 0..MaxPos, ty \in Types}

MissingUid == "u9"

NearestParams ==
  {[NearestDefaults EXCEPT !.entityId = pt[1], !.coordinates = pt[2],
                           !.maxDistance = md, !.maxResults = mr, !.entityTypes = et] :
     pt \in {<<None, Some(<<0, 0>>)>>, <<None, Some(<<1, 0>>)>>, <<Some("u1"), None>>,
             <<Some(MissingUid), None>>, <<None, None>>},
     md \in {None, Some(0), Some(1)},
     mr \in {None, Some(1)},
     et \in {None, Some({<<"a", "f", "*">>})}}

NearestNext ==
  \/ \E e \in GeoEvents : NoResult /\ ReceiveEvent(e)
  \/ \E params \in NearestParams : FindNearestCall(params)
  \/ FindNearestReturn

SpecNearest == Init /\ [][NearestNext]_vars

NearestDone == result.tool = "tak_find_nearest" /\ result.success
\* the entities that pass the filters of the call that returned
Candidates == FilteredEntities(GetEntities(events, NoParams, now), call.params, now)
\* the distance the tool reports for an entity: whole metres
Reported(entity) == MathRound(TurfDistance(result.referenceCoords, Coords(entity)))
\* its distance from the reference point, in half metres
Exact(entity) == TurfDistance(result.referenceCoords, Coords(entity))
Returned(entity) == MapHas(result.nearestEntities, entity.uid)
MaxResultsOf(params) == IF params.maxResults = None THEN 10 ELSE The(params.maxResults)

\* C5 (as amended): the result list is sorted in ascending reported distance (the
\* distance rounded to whole metres), has at most maxResults entries, each a
\* filtered entity with its reported distance, and no filtered entity that is
\* omitted has a smaller reported distance than an entity that is returned;
\* without maxDistance an entity is omitted only when the list is full.
C5_NearestByReportedDistance ==
  NearestDone =>
    LET items == result.nearestEntities
        params == call.params
    IN /\ \A i, j \in 1..Len(items) : i < j => items[i].distance <= items[j].distance
       /\ \A i, j \in 1..Len(items) : items[i].uid = items[j].uid => i = j
       /\ Len(items) <= MaxResultsOf(params)
       /\ \A i \in 1..Len(items) :
            \E k \in 1..Len(Candidates) :
              /\ items[i].entity = Candidates[k]
              /\ items[i].distance = Reported(Candidates[k])
       /\ \A k \in 1..Len(Candidates) :
            ~Returned(Candidates[k]) =>
              \A i \in 1..Len(items) : Reported(Candidates[k]) >= items[i].distance
       /\ params.maxDistance = None =>
            \/ Len(items) = MaxResultsOf(params)
            \/ Len(items) = Len(Candidates)

\* C5 witness: of two filtered entities the one delivered first is farther by
\* its reported distance, maxResults is 1 and the nearer one is returned
C5_Witness ==
  /\ NearestDone
  /\ call.params.maxResults = Some(1)
  /\ Len(Candidates) = 2
  /\ Reported(Candidates[1]) > Reported(Candidates[2])
  /\ Len(result.nearestEntities) = 1
  /\ result.nearestEntities[1].entity = Candidates[2]

\* C5 (as claimed): the result list is in ascending distance from the reference
\* point, has at most maxResults entries, and no filtered entity that is omitted
\* is strictly closer to the reference point than an entity that is returned
C5_Original ==
  NearestDone =>
    LET items == result.nearestEntities
    IN /\ \A i, j \in 1..Len(items) : i < j => Exact(items[i].entity) <= Exact(items[j].entity)
       /\ Len(items) <= MaxResultsOf(call.params)
       /\ \A k \in 1..Len(Candidates) :
            ~Returned(Candidates[k]) =>
              \A i \in 1..Len(items) : Exact(Candidates[k]) >= Exact(items[i].entity)

\* C6 (as claimed): whenever maxDistance is supplied, 0 included, no returned
\* entity is reported farther from the reference point than maxDistance
C6_Original ==
  (NearestDone /\ call.params.maxDistance # None) =>
    \A i \in 1..Len(result.nearestEntities) :
      result.nearestEntities[i].distance <= The(call.params.maxDistance)

\* the order of the entity identifiers
UidRank(uid) == CHOOSE r \in 1..2 : <<"u1", "u2">>[r] = uid

\* C7 (as claimed): entities at equal distance are listed by entity identifier
C7_Original ==
  NearestDone =>
    LET items == result.nearestEntities
    IN \A i, j \in 1..Len(items) :
         (i < j /\ Exact(items[i].entity) = Exact(items[j].entity))
           => UidRank(items[i].uid) < UidRank(items[j].uid)

\* ------------------------------------------------------------------------
\* tak_spatial_query and tak_calculate_distance (C8 - C10)
\* ------------------------------------------------------------------------
\* the events of the distance runs: uid and position vary
PlaceEvents ==
  {[BaseEvent EXCEPT !.uid = u, !.lat = p] : u \in UIDs, p \in 0..MaxPos}

NoPointGiven == [entityId |-> None, coordinates |-> None]
At(p) == [entityId |-> None, coordinates |-> Some(<<p, 0>>)]
Of(uid) == [entityId |-> Some(uid), coordinates |-> None]

Batches ==
  UNION {[1..n -> {At(1), Of("u2"), NoPointGiven}] : n \in 0..MaxBatch}

DistanceParams ==
  {[from |-> f, to |-> None, batch |-> Some(b)] :
     f \in {At(0), Of("u1"), NoPointGiven}, b \in Batches}
  \cup
  {[from |-> f, to |-> t, batch |-> b] :
     f \in {At(0), Of("u1")},
     t \in {Some(At(1)), Some(Of("u2")), Some(NoPointGiven)},
     b \in {None, Some(<<At(1)>>)}}
  \cup
  {[from |-> At(0), to |-> None, batch |-> None]}

SpatialParams ==
  {[center |-> <<c, 0>>, radius |-> Some(r), includeStale |-> i] :
     c \in 0..1, r \in 0..1, i \in {None, Some(TRUE)}}

GeoNearestParams ==
  {[NearestDefaults EXCEPT !.entityId = e] : e \in {None, Some("u1"), Some(MissingUid)}}

GeoNext ==
  \/ \E e \in PlaceEvents : NoResult /\ ReceiveEvent(e)
  \/ \E params \in SpatialParams : SpatialQueryTool(params)
  \/ \E params \in DistanceParams : CalcDistanceCall(params)
  \/ CalcDistanceTo
  \/ \E i \in 1..MaxBatch : CalcDistanceItem(i)
  \/ CalcDistanceReturn
  \/ \E params \in GeoNearestParams : FindNearestCall(params)
  \/ FindNearestReturn

SpecGeo == Init /\ [][GeoNext]_vars

\* the events within radius metres of center (distances are in half metres)
WithinRadius(evs, center, radius) ==
  Keep(evs, LAMBDA e : TurfDistance(center, <<e.lat, e.lon>>) <= 2 * radius)

\* C8 (as claimed, the server having answered with the events within radius of
\* center): an event appears in the results iff it passes the filters and lies
\* within radius of center, and the distanceFromCenter of each result is its
\* distance from center, at most radius
C8_Original ==
  (/\ result.tool = "tak_spatial_query" /\ call.params.radius # None
   /\ call.events = WithinRadius(events, call.params.center, The(call.params.radius))) =>
    LET params == call.params
        Dist(e) == TurfDistance(params.center, <<e.lat, e.lon>>)
        Passes(e) == params.includeStale = Some(TRUE) \/ DateGT(e.stale, now)
    IN /\ \A i \in 1..Len(events) :
            (\E k \in 1..Len(result.results) : result.results[k].uid = events[i].uid
                                               /\ result.results[k].location.lat = events[i].lat)
              <=> (Passes(events[i]) /\ Dist(events[i]) <= 2 * The(params.radius))
       /\ \A k \in 1..Len(result.results) :
            LET r == result.results[k]
            IN /\ r.distanceFromCenter # None
               /\ The(r.distanceFromCenter)
                    = TurfDistance(params.center, <<r.location.lat, r.location.lon>>)
               /\ The(r.distanceFromCenter) <= 2 * The(params.radius)

\* a batch call (batch and no to) has finished and its from had resolved
BatchCallDone ==
  /\ call.tool = "tak_calculate_distance" /\ call.pc = "done"
  /\ call.params.to = None /\ call.params.batch # None
  /\ call.fromCoords # None

\* C9: a batch call whose from resolves returns success with one entry per
\* destination, in input order: a destination given by coordinates yields its
\* distance, one given by neither coordinates nor entityId yields the error of
\* that, one given by an entityId yields its distance or the error naming the
\* entity, whatever the other entries are; successfulCalculations counts the
\* entries without error and totalCalculations is the length of the batch.
C9_BatchIsolation ==
  BatchCallDone =>
    LET batch == The(call.params.batch)
        entries == result.distances
        Good(i) == entries[i].error = None
    IN /\ result.success
       /\ Len(entries) = Len(batch)
       /\ \A i \in 1..Len(batch) :
            /\ entries[i].to.entityId = batch[i].entityId
            /\ batch[i].coordinates # None =>
                 /\ Good(i)
                 /\ entries[i].to.coordinates = batch[i].coordinates
            /\ Good(i) =>
                 entries[i].distance =
                   Some(TurfDistance(The(call.fromCoords), The(entries[i].to.coordinates)))
            /\ ~Good(i) =>
                 /\ batch[i].coordinates = None
                 /\ entries[i].error =
                      Some(IF batch[i].entityId = None THEN NoPoint
                           ELSE NotFound(The(batch[i].entityId)))
       /\ result.totalCalculations = Len(batch)
       /\ result.successfulCalculations = Cardinality({i \in 1..Len(batch) : Good(i)})

\* C9 witness: a batch of two whose first destination could not be resolved
\* and whose second one has its distance
C9_Witness ==
  /\ BatchCallDone
  /\ Len(result.distances) = 2
  /\ result.distances[1].error # None
  /\ result.distances[2].error = None
  /\ result.successfulCalculations = 1
  /\ result.totalCalculations = 2

\* C10 (as claimed): the failure for an entityId without current state names the
\* entity and carries another error code than the failure of the same tool for
\* a point with neither entityId nor coordinates
C10_Original ==
  \A id \in UIDs \cup {MissingUid} :
    (call.tool \in {"tak_calculate_distance", "tak_find_nearest"}
       /\ call.pc = "done"
       /\ "success" \in DOMAIN result /\ ~result.success
       /\ result.details = NotFound(id))
      => /\ id \in Range(result.details)
         /\ result.code #
              (IF call.tool = "tak_find_nearest"
               THEN FindNearestCatch(NoPoint) ELSE CalcDistanceCatch(NoPoint)).code

\* ------------------------------------------------------------------------
\* tak_create_geofence (C11 - C13)
\* ------------------------------------------------------------------------
\* !x of an optional number: x is left out or 0
Not(x) == x = None \/ The(x) = 0

\* throw new Error(message) inside the handler's try block
Throw(message) == [ok |-> FALSE, message |-> message]

\* turf.centroid of the polygon of vertices: the mean of its vertices
Centroid(vertices) ==
  LET n == Len(vertices)
      Sum[i \in 0..n] == IF i = 0 THEN <<0, 0>>
                         ELSE <<Sum[i - 1][1] + vertices[i][1], Sum[i - 1][2] + vertices[i][2]>>
  IN <<Sum[n][1] \div n, Sum[n][2] \div n>>

\* the ring handed to turf.polygon: the vertices as [lon, lat], then
\* vertices.push(vertices[0])
Ring(vertices) ==
  LET swapped == [i \in 1..Len(vertices) |-> <<vertices[i][2], vertices[i][1]>>]
  IN Append(swapped, swapped[1])

\* mutant of BuildGeometry: the geometry is built from whatever shape is given
BuildGeometryUnchecked(shape) ==
  [ok |-> TRUE, geometry |-> [type |-> shape.type, shape |-> shape]]

\* the switch on params.shape.type: the geometry, or the error thrown.  turf's
\* circle, destination and polygon take any number as radius, width or height
BuildGeometry(shape) ==
  CASE shape.type = "circle" ->
         IF shape.center = None \/ Not(shape.radius)
         THEN Throw(<<"Circle geofence requires center and radius">>)
         ELSE [ok |-> TRUE, geometry |-> [type |-> "circle", shape |-> shape]]
    [] shape.type = "polygon" ->
         IF shape.vertices = None \/ Len(The(shape.vertices)) < 3
         THEN Throw(<<"Polygon geofence requires at least 3 vertices">>)
         ELSE [ok |-> TRUE, geometry |-> [type |-> "polygon", shape |-> shape,
                                          coordinates |-> Ring(The(shape.vertices))]]
    [] shape.type = "rectangle" ->
         IF shape.center = None \/ Not(shape.width) \/ Not(shape.height)
         THEN Throw(<<"Rectangle geofence requires center, width, and height">>)
         ELSE [ok |-> TRUE, geometry |-> [type |-> "rectangle", shape |-> shape]]
    [] OTHER -> Throw(<<"Unknown geofence shape:", shape.type>>)

\* the catch block of tak_create_geofence
GeofenceCatch(message) == Failure("tak_create_geofence", "TAK_GEOFENCE_ERROR", message)

GeofenceId == "geofence-1"
DefaultTriggers == [onEntry |-> TRUE, onExit |-> TRUE, onDwell |-> None]

\* the geofence object
Geofence(params, geometry) ==
  [id |-> GeofenceId, name |-> params.name, type |-> params.shape.type,
   geometry |-> geometry,
   triggers |-> IF params.triggers = None THEN DefaultTriggers ELSE The(params.triggers),
   active |-> params.active # Some(FALSE)]

\* the CotMessage handed to sendCotEvent; stale is 24 hours after time
CotMessage(params, geometry, clock) ==
  [uid |-> GeofenceId, type |-> <<"u", "d", "f">>, time |-> clock, start |-> clock,
   stale |-> clock + 24 * 60,
   point |-> IF params.shape.center # None THEN The(params.shape.center)
             ELSE Centroid(The(params.shape.vertices)),
   detail |-> [shape |-> geometry, callsign |-> params.name]]

\* the handler up to await takClient.sendCotEvent: the geometry and the geofence
CreateGeofenceCall(params) ==
  /\ call = NoCall /\ NoResult
  /\ LET built == BuildGeometry(params.shape)
     IN IF built.ok
        THEN /\ call' = [tool |-> "tak_create_geofence", pc |-> "send", params |-> params,
                         geometry |-> Some(built.geometry)]
             /\ UNCHANGED result
        ELSE /\ call' = [tool |-> "tak_create_geofence", pc |-> "done", params |-> params,
                         geometry |-> None]
             /\ result' = GeofenceCatch(built.message)
  /\ UNCHANGED <<events, now, geVars, fxVars, netVars>>

\* the POST of sendCotEvent succeeds: the handler returns the geofence
CreateGeofenceSent ==
  /\ call.tool = "tak_create_geofence" /\ call.pc = "send"
  /\ sent' = Append(sent, CotMessage(call.params, The(call.geometry), now))
  /\ result' = [tool |-> "tak_create_geofence", success |-> TRUE,
                geofence |-> Geofence(call.params, The(call.geometry)),
                cotUid |-> GeofenceId]
  /\ call' = [call EXCEPT !.pc = "done"]
  /\ UNCHANGED <<events, now, geVars, containment, alerts, netVars>>

\* the POST of sendCotEvent fails: axios rejects, the catch block answers
CreateGeofenceSendFails ==
  /\ call.tool = "tak_create_geofence" /\ call.pc = "send"
  /\ result' = GeofenceCatch(<<"Request failed">>)
  /\ call' = [call EXCEPT !.pc = "done"]
  /\ UNCHANGED <<events, now, geVars, fxVars, netVars>>

\* the shapes of the geofence runs: fields left out, negative, zero, positive
NoShape ==
  [type |-> "circle", center |-> None, radius |-> None, vertices |-> None,
   width |-> None, height |-> None]
Lengths == {None, Some(0 - 1), Some(0), Some(1)}
Polygons ==
  {None, Some(<<>>), Some(<<<<0, 0>>, <<1, 0>>>>), Some(<<<<0, 0>>, <<2, 0>>, <<1, 1>>>>),
   Some(<<<<0, 0>>, <<2, 0>>, <<1, 1>>, <<0, 0>>>>)}
Shapes ==
  {[NoShape EXCEPT !.center = c, !.radius = r] : c \in {None, Some(<<1, 0>>)}, r \in Lengths}
  \cup {[NoShape EXCEPT !.type = "polygon", !.vertices = v] : v \in Polygons}
  \cup {[NoShape EXCEPT !.type = "rectangle", !.center = c, !.width = w, !.height = h] :
          c \in {None, Some(<<1, 0>>)}, w \in Lengths, h \in Lengths}
  \cup {[NoShape EXCEPT !.type = "ellipse", !.center = Some(<<1, 0>>), !.radius = Some(1)]}

TriggerSets ==
  {None,
   Some([onEntry |-> TRUE, onExit |-> TRUE,
         onDwell |-> Some([enabled |-> TRUE, duration |-> 1])]),
   Some([onEntry |-> FALSE, onExit |-> TRUE, onDwell |-> None])}

GeofenceParams ==
  {[name |-> "fence", shape |-> sh, triggers |-> tr, active |-> None] :
     sh \in Shapes, tr \in TriggerSets}

\* --------------------------------------------------- Geofence Evaluator
\* The repository creates geofences and holds no evaluator; the state machine
\* below is the one of the specification (4.4), for the geofence created.
MaxAlerts == 4           \* transitions and alerts one run records

\* the geofence the evaluator holds: the one tak_create_geofence returned
HasFence == result.tool = "tak_create_geofence" /\ result.success
Fence == result.geofence

\* containment of a position [lat, lon] of the meridian: a circle by the distance
\* from its center, a rectangle (north aligned) by half its height
InsideFence(fence, position) ==
  LET shape == fence.geometry.shape
  IN CASE fence.type = "circle" ->
            TurfDistance(The(shape.center), position) <= 2 * The(shape.radius)
       [] fence.type = "rectangle" ->
            /\ The(shape.width) >= 0
            /\ TurfDistance(The(shape.center), position) <= The(shape.height)
       [] OTHER -> FALSE

DwellDue(state, triggers, clock) ==
  /\ triggers.onDwell # None
  /\ The(triggers.onDwell).enabled
  /\ ~state.dwellRaised
  /\ clock - The(state.enteredAt) >= The(triggers.onDwell).duration

\* mutant of Evaluate: a report outside the shape raises onExit and a report
\* inside on which the dwell is due raises onDwell, whatever the state was
EvaluateStateless(state, isInside, triggers, clock) ==
  IF isInside
  THEN IF state.inside
       THEN [state |-> state,
             out |-> IF triggers.onDwell # None /\ The(triggers.onDwell).enabled
                        /\ clock - The(state.enteredAt) >= The(triggers.onDwell).duration
                     THEN <<[kind |-> "onDwell", raised |-> TRUE]>> ELSE <<>>]
       ELSE [state |-> [inside |-> TRUE, enteredAt |-> Some(clock), dwellRaised |-> FALSE],
             out |-> <<[kind |-> "onEntry", raised |-> triggers.onEntry]>>]
  ELSE [state |-> Outside, out |-> <<[kind |-> "onExit", raised |-> triggers.onExit]>>]

\* one report against one (geofence, entity) pair: the next state of the pair
\* and what is raised (raised is FALSE for a transition whose trigger is off)
Evaluate(state, isInside, triggers, clock) ==
  CASE ~state.inside /\ isInside ->
         [state |-> [inside |-> TRUE, enteredAt |-> Some(clock), dwellRaised |-> FALSE],
          out |-> <<[kind |-> "onEntry", raised |-> triggers.onEntry]>>]
    [] state.inside /\ ~isInside ->
         [state |-> Outside, out |-> <<[kind |-> "onExit", raised |-> triggers.onExit]>>]
    [] state.inside /\ isInside /\ DwellDue(state, triggers, clock) ->
         [state |-> [state EXCEPT !.dwellRaised = TRUE],
          out |-> <<[kind |-> "onDwell", raised |-> TRUE]>>]
    [] OTHER -> [state |-> state, out |-> <<>>]

\* a Position Report of entity uid reaches the evaluator: one atomic step
EvaluateReport(uid, position) ==
  /\ HasFence
  /\ Fence.type \in {"circle", "rectangle"}
  /\ Len(alerts) < MaxAlerts
  /\ LET step == Evaluate(containment[uid], InsideFence(Fence, position), Fence.triggers, now)
     IN /\ containment' = [containment EXCEPT ![uid] = step.state]
        /\ alerts' = alerts \o [i \in 1..Len(step.out) |->
                                  [uid |-> uid, kind |-> step.out[i].kind,
                                   raised |-> step.out[i].raised, at |-> now]]
  /\ UNCHANGED <<events, now, geVars, toolVars, sent, netVars>>

\* the positions reported: at the center of the shapes, near it, far from it
ReportPositions == {<<lat, 0>> : lat \in {1, 2, 10 * (MaxPos + 1)}}

GeofenceNext ==
  \/ \E params \in GeofenceParams : CreateGeofenceCall(params)
  \/ CreateGeofenceSent
  \/ CreateGeofenceSendFails
  \/ \E uid \in UIDs, position \in ReportPositions : EvaluateReport(uid, position)
  \/ HasFence /\ Tick

SpecGeofence == Init /\ [][GeofenceNext]_vars

GeofenceDone == call.tool = "tak_create_geofence" /\ call.pc = "done"

\* a shape the specification calls degenerate
Degenerate(shape) ==
  \/ shape.type = "circle" /\ shape.radius # None /\ The(shape.radius) <= 0
  \/ shape.type = "polygon" /\ shape.vertices # None /\ Len(The(shape.vertices)) < 3
  \/ /\ shape.type = "rectangle"
     /\ \/ shape.width # None /\ The(shape.width) <= 0
        \/ shape.height # None /\ The(shape.height) <= 0

\* C11 (as claimed): for a circle with radius <= 0, a polygon with fewer than 3
\* vertices and a rectangle with width <= 0 or height <= 0, tak_create_geofence
\* returns a failure and creates no geofence
C11_Original ==
  (GeofenceDone /\ Degenerate(call.params.shape)) =>
    (~result.success /\ sent = <<>>)

\* shape validation fails: center or radius missing, too few vertices, width or
\* height missing, unknown shape type
ValidationFails(shape) ==
  CASE shape.type = "circle" -> shape.center = None \/ shape.radius = None
    [] shape.type = "polygon" -> shape.vertices = None \/ Len(The(shape.vertices)) < 3
    [] shape.type = "rectangle" ->
         shape.center = None \/ shape.width = None \/ shape.height = None
    [] OTHER -> TRUE

\* C13: when shape validation fails the call ends at once with a failure and no
\* CoT message is ever dispatched; a CoT message is dispatched only for a shape
\* that passed validation, after its geometry was built, and it carries that
\* geometry
C13_ValidationFirst ==
  call.tool = "tak_create_geofence" =>
    /\ ValidationFails(call.params.shape) =>
         /\ call.pc = "done"
         /\ call.geometry = None
         /\ result.tool = "tak_create_geofence" /\ ~result.success
         /\ result.code = "TAK_GEOFENCE_ERROR"
         /\ sent = <<>>
    /\ sent # <<>> =>
         /\ ~ValidationFails(call.params.shape)
         /\ call.geometry # None
         /\ Len(sent) = 1
         /\ sent[1].detail.shape = The(call.geometry)
         /\ sent[1].detail.shape.type = call.params.shape.type

\* C13 witness: a polygon of two vertices was refused and nothing was dispatched
C13_Witness ==
  /\ GeofenceDone
  /\ call.params.shape.type = "polygon"
  /\ call.params.shape.vertices # None
  /\ Len(The(call.params.shape.vertices)) = 2
  /\ ~result.success
  /\ sent = <<>>

\* the log of one entity, and its transitions (onEntry, onExit)
LogOf(uid) == SeqFilter(alerts, {i \in 1..Len(alerts) : alerts[i].uid = uid})
Transitions(log) == SeqFilter(log, {i \in 1..Len(log) : log[i].kind # "onDwell"})

\* C12: for each entity the transitions alternate, starting with an onEntry, so
\* that each onExit follows an onEntry not yet matched by an exit; an onDwell
\* alert is raised inside only, and two onDwell alerts of one entity have an
\* onExit between them
C12_TransitionProtocol ==
  \A uid \in UIDs :
    LET log == LogOf(uid)
        moves == Transitions(log)
    IN /\ \A k \in 1..Len(moves) :
            moves[k].kind = (IF k % 2 = 1 THEN "onEntry" ELSE "onExit")
       /\ \A k \in 1..Len(log) :
            log[k].kind = "onDwell" =>
              /\ \E i \in 1..(k - 1) :
                   /\ log[i].kind = "onEntry"
                   /\ \A m \in (i + 1)..(k - 1) : log[m].kind # "onExit"
              /\ \A j \in 1..(k - 1) :
                   log[j].kind = "onDwell" =>
                     \E m \in (j + 1)..(k - 1) : log[m].kind = "onExit"

\* C12 witness: an entity entered, dwelt, left and entered again
C12_Witness ==
  \E uid \in UIDs :
    LET log == LogOf(uid)
    IN /\ Len(log) = 4
       /\ log[1].kind = "onEntry" /\ log[2].kind = "onDwell"
       /\ log[3].kind = "onExit" /\ log[3].raised
       /\ log[4].kind = "onEntry"

\* C23 (as claimed): the ring of a polygon geofence is the input vertices
\* followed by the first vertex when the input ring is open, and the input
\* vertices unchanged when the input ring is closed already
C23_Original ==
  (GeofenceDone /\ "success" \in DOMAIN result /\ result.success
     /\ call.params.shape.type = "polygon") =>
    LET vertices == The(call.params.shape.vertices)
        input == [i \in 1..Len(vertices) |-> <<vertices[i][2], vertices[i][1]>>]
        ring == result.geofence.geometry.coordinates
    IN IF input[1] = input[Len(input)] THEN ring = input
       ELSE ring = Append(input, input[1])

\* ------------------------------------------------------------------------
\* tak_calculate_distance: the outcome (C14)
\* C14 (as claimed): whatever of to and batch is present, the handler of
\* tak_calculate_distance returns a success payload or a typed failure
C14_Original ==
  (call.tool = "tak_calculate_distance" /\ call.pc = "done") =>
    /\ "success" \in DOMAIN result
    /\ result.success \/ result.code = "TAK_CALCULATION_ERROR"

\* ------------------------------------------------------------------------
\* tak_analyze_movement (C15 - C18)
\* ------------------------------------------------------------------------
MaxTrack == 3            \* events of one track
StopThreshold == 50      \* const stopThreshold = 50, metres
StopDuration == 300      \* const stopDuration = 300, seconds

\* the catch block of tak_analyze_movement
AnalysisCatch(message) == Failure("tak_analyze_movement", "TAK_ANALYSIS_ERROR", message)

RECURSIVE SortByTime(_)
\* events.sort((a, b) => new Date(a.time).getTime() - new Date(b.time).getTime())
SortByTime(evs) ==
  IF evs = <<>> THEN <<>>
  ELSE LET n == Len(evs)
           last == evs[n]
           front == SortByTime(SubSeq(evs, 1, n - 1))
           before == SeqFilter(front, {i \in 1..Len(front) : front[i].time <= last.time})
           after == SeqFilter(front, {i \in 1..Len(front) : front[i].time > last.time})
       IN before \o <<last>> \o after

\* positions: time, lat, lon and alt (event.point.hae || 0) of the sorted events
Positions(evs) ==
  LET sorted == SortByTime(evs)
  IN [i \in 1..Len(sorted) |->
        [time |-> sorted[i].time, lat |-> sorted[i].point.lat, lon |-> sorted[i].point.lon,
         alt |-> sorted[i].point.hae]]

\* the segment from positions[i-1] to positions[i]: turf.distance in half metres,
\* timeDiff in minutes
SegDistance(positions, i) ==
  TurfDistance(<<positions[i - 1].lat, positions[i - 1].lon>>,
               <<positions[i].lat, positions[i].lon>>)
SegTimeDiff(positions, i) == positions[i].time - positions[i - 1].time

\* (distance / timeDiff) * 3.6, here in half metres per 10 minutes: a whole number
\* for the time differences of the tracks, 5 and 10 minutes
Speed(distance, timeDiff) == (10 * distance) \div timeDiff

RECURSIVE SumSeq(_)
\* reduce((a, b) => a + b, 0)
SumSeq(s) == IF s = <<>> THEN 0 ELSE Head(s) + SumSeq(Tail(s))

\* the segments the speed loops take: timeDiff > 0
Moving(positions) == {i \in 2..Len(positions) : SegTimeDiff(positions, i) > 0}

\* speedAnalysis; averageSpeed is sum / count, and 0 when no speed was taken
SpeedAnalysis(positions) ==
  LET all == [k \in 1..(Len(positions) - 1) |->
                IF k + 1 \in Moving(positions)
                THEN Speed(SegDistance(positions, k + 1), SegTimeDiff(positions, k + 1))
                ELSE 0]
      speeds == SeqFilter(all, {k \in 1..Len(all) : k + 1 \in Moving(positions)})
      dists == [k \in 1..Len(all) |->
                  IF k + 1 \in Moving(positions) THEN SegDistance(positions, k + 1) ELSE 0]
  IN [averageSpeed |-> [sum |-> SumSeq(speeds), count |-> Len(speeds)],
      maxSpeed |-> IF speeds = <<>> THEN 0
                   ELSE CHOOSE x \in Range(speeds) : \A y \in Range(speeds) : y <= x,
      minSpeed |-> IF speeds = <<>> THEN 0
                   ELSE CHOOSE x \in Range(speeds) : \A y \in Range(speeds) : x <= y,
      totalDistance |-> SumSeq(dists)]

\* turf.bearing along the meridian: 0 to the north (and between equal points),
\* 180 to the south
Bearing(from, to) == IF to.lat < from.lat THEN 180 ELSE 0

\* patternAnalysis
PatternAnalysis(positions) ==
  LET headings == [k \in 1..(Len(positions) - 1) |->
                     Bearing(positions[k], positions[k + 1])]
      Wrap(change) == IF change > 180 THEN change - 360
                      ELSE IF change < 0 - 180 THEN change + 360 ELSE change
      headingChanges == [k \in 1..(Len(headings) - 1) |->
                           Wrap(headings[k + 1] - headings[k])]
      totalHeadingChange == SumSeq(headingChanges)
  IN [movementType |-> IF Abs(totalHeadingChange) > 300 THEN "circular" ELSE "linear",
      totalHeadingChange |-> totalHeadingChange]

\* the stop loop from position 2 to position i: the stops pushed and currentStop
RECURSIVE StopLoop(_, _)
StopLoop(positions, i) ==
  IF i < 2 THEN [stops |-> <<>>, currentStop |-> None]
  ELSE LET prev == StopLoop(positions, i - 1)
           cur == prev.currentStop
       IN IF SegDistance(positions, i) < 2 * StopThreshold
          THEN LET opened == IF cur = None
                             THEN [startTime |-> positions[i - 1].time, first |-> i - 1]
                             ELSE [startTime |-> The(cur).startTime, first |-> The(cur).first]
               IN [stops |-> prev.stops,
                   currentStop |-> Some([startTime |-> opened.startTime, first |-> opened.first,
                                         endTime |-> positions[i].time, last |-> i])]
          ELSE IF cur # None
          THEN LET duration == (The(cur).endTime - The(cur).startTime) * 60
               IN [stops |-> IF duration >= StopDuration
                             THEN Append(prev.stops,
                                         [startTime |-> The(cur).startTime,
                                          endTime |-> The(cur).endTime,
                                          first |-> The(cur).first, last |-> The(cur).last,
                                          duration |-> duration])
                             ELSE prev.stops,
                   currentStop |-> None]
          ELSE prev

\* stopAnalysis: what the loop has pushed when it ends
StopAnalysis(positions) ==
  LET stops == StopLoop(positions, Len(positions)).stops
  IN [stops |-> stops, totalStops |-> Len(stops),
      totalStopTime |-> SumSeq([k \in 1..Len(stops) |-> stops[k].duration])]

\* anomalyAnalysis: without analysis.speedAnalysis no segment is looked at;
\* anomalyThreshold is in tenths, and left out it makes speedThreshold NaN, which
\* no speed exceeds
AnomalyAnalysis(positions, speedAnalysis, anomalyThreshold) ==
  LET avg == The(speedAnalysis).averageSpeed
      Exceeds(i) ==
        Speed(SegDistance(positions, i), SegTimeDiff(positions, i)) * avg.count * 10
          > avg.sum * (10 + The(anomalyThreshold))
      flagged == IF speedAnalysis = None \/ anomalyThreshold = None THEN {}
                 ELSE {i \in Moving(positions) : Exceeds(i)}
      anomalies == SeqFilter([i \in 1..Len(positions) |->
                                [type |-> "speed", at |-> i, time |-> positions[i].time]],
                             flagged)
  IN [anomalies |-> anomalies, totalAnomalies |-> Len(anomalies)]

\* mutant of Insufficient: only an empty array is too little
InsufficientWhenEmpty(evs) == Len(evs) < 1

\* events.length < 2
Insufficient(evs) == Len(evs) < 2

\* params.analysisType || ['speed', 'pattern']
AnalysisTypes(params) ==
  IF params.analysisType = None THEN {"speed", "pattern"} ELSE The(params.analysisType)

\* the handler once getCotEvents has resolved with evs.  turf.lineString throws
\* on fewer than two positions.
AnalyzeMovement(evs, params) ==
  IF Insufficient(evs)
  THEN [tool |-> "tak_analyze_movement", success |-> TRUE, entityId |-> params.entityId,
        message |-> "Insufficient movement data for analysis", dataPoints |-> Len(evs)]
  ELSE LET positions == Positions(evs)
           types == AnalysisTypes(params)
           speedAnalysis == IF "speed" \in types THEN Some(SpeedAnalysis(positions)) ELSE None
       IN IF "pattern" \in types /\ Len(positions) < 2
          THEN AnalysisCatch(<<"coordinates must be an array of two or more positions">>)
          ELSE [tool |-> "tak_analyze_movement", success |-> TRUE,
                entityId |-> params.entityId, dataPoints |-> Len(positions),
                speedAnalysis |-> speedAnalysis,
                patternAnalysis |-> IF "pattern" \in types
                                    THEN Some(PatternAnalysis(positions)) ELSE None,
                stopAnalysis |-> IF "stops" \in types
                                 THEN Some(StopAnalysis(positions)) ELSE None,
                anomalyAnalysis |->
                  IF "anomaly" \in types
                  THEN Some(AnomalyAnalysis(positions, speedAnalysis, params.anomalyThreshold))
                  ELSE None]

\* getCotEvents({uids: [uid], start, end}): one GET of /api/cot/xml/<uid> per uid,
\* whose answer is one event of that uid or none (start and end are not sent)
GetCotEventsOfUid(evs, uid) ==
  {<<>>} \cup {<<ParseCotEvent(evs[i])>> : i \in {j \in 1..Len(evs) : evs[j].uid = uid}}

\* params.timeRange?.startTime || 24 hours before now
StartTime(params, clock) ==
  IF params.timeRange = None \/ The(params.timeRange).startTime = None
  THEN clock - 24 * 60 ELSE The(The(params.timeRange).startTime)

\* params.timeRange?.endTime || now
EndTime(params, clock) ==
  IF params.timeRange = None \/ The(params.timeRange).endTime = None
  THEN clock ELSE The(The(params.timeRange).endTime)

\* tak_analyze_movement on the events TAKServerClient.getCotEvents fetches
AnalyzeMovementTool(params) ==
  /\ call = NoCall /\ NoResult
  /\ \E fetched \in GetCotEventsOfUid(events, params.entityId) :
       /\ call' = [tool |-> "tak_analyze_movement", pc |-> "done", params |-> params,
                   startTime |-> StartTime(params, now), endTime |-> EndTime(params, now),
                   events |-> fetched]
       /\ result' = AnalyzeMovement(fetched, params)
  /\ UNCHANGED <<events, now, geVars, fxVars, netVars>>

\* the handler on an array of events handed to it as the track of the entity
AnalyzeMovementOf(track, params) ==
  /\ call = NoCall /\ NoResult
  /\ LET evs == [i \in 1..Len(track) |-> ParseCotEvent(track[i])]
     IN /\ call' = [tool |-> "tak_analyze_movement", pc |-> "done", params |-> params,
                    startTime |-> StartTime(params, now), endTime |-> EndTime(params, now),
                    events |-> evs]
        /\ result' = AnalyzeMovement(evs, params)
  /\ UNCHANGED <<events, now, geVars, fxVars, netVars>>

\* the tracks: reports 0, 5 or 10 minutes after the start, at the start, half a
\* metre from it or 100 m from it, in any order
TrackEvents ==
  {[BaseEvent EXCEPT !.time = t, !.lat = p] :
     t \in {0, 5, 10}, p \in {0, 1, 4 * StopThreshold}}
Tracks == UNION {[1..n -> TrackEvents] : n \in 0..MaxTrack}

TimeRanges ==
  {None, Some([startTime |-> Some(0), endTime |-> Some(5)])}

MovementParams ==
  {[entityId |-> "u1", analysisType |-> a, anomalyThreshold |-> th, timeRange |-> tr] :
     tr \in TimeRanges,
     a \in {None, Some({"speed"}), Some({"anomaly"}), Some({"speed", "anomaly"}),
            Some({"stops"}), Some({"pattern", "stops"}),
            Some({"speed", "pattern", "stops", "anomaly"})},
     th \in {None, Some(0), Some(8), Some(10)}}

MovementNext ==
  \/ \E e \in TrackEvents : NoResult /\ ReceiveEvent(e)
  \/ \E params \in MovementParams : AnalyzeMovementTool(params)
  \/ /\ events = <<>> /\ call = NoCall
     /\ \E track \in Tracks, params \in MovementParams : AnalyzeMovementOf(track, params)

SpecMovement == Init /\ [][MovementNext]_vars

MovementDone == call.tool = "tak_analyze_movement" /\ call.pc = "done"
Analysed == MovementDone /\ Len(call.events) >= 2

\* C15: with fewer than 2 events the handler returns success with the message of
\* insufficient data and the number of data points, and nothing else: no speed,
\* pattern, stop or anomaly analysis
C15_InsufficientData ==
  (MovementDone /\ Len(call.events) < 2) =>
    result = [tool |-> "tak_analyze_movement", success |-> TRUE,
              entityId |-> call.params.entityId,
              message |-> "Insufficient movement data for analysis",
              dataPoints |-> Len(call.events)]

\* C15 witness: one event, every analysis asked for, the insufficient-data answer
C15_Witness ==
  /\ MovementDone
  /\ Len(call.events) = 1
  /\ call.params.analysisType = Some({"speed", "pattern", "stops", "anomaly"})
  /\ result.success
  /\ result.dataPoints = 1

\* a maximal run of positions a..b, each less than the threshold from its
\* predecessor, that lasts the minimum dwell
QualifyingRun(positions, a, b) ==
  LET Close(i) == SegDistance(positions, i) < 2 * StopThreshold
  IN /\ a < b
     /\ \A i \in (a + 1)..b : Close(i)
     /\ a = 1 \/ ~Close(a)
     /\ b = Len(positions) \/ ~Close(b + 1)
     /\ (positions[b].time - positions[a].time) * 60 >= StopDuration

\* C16 (as claimed): every qualifying run, also one that ends with the track, is
\* reported as exactly one stop spanning it, and nothing else is reported
C16_Original ==
  (Analysed /\ "stops" \in AnalysisTypes(call.params)) =>
    LET positions == Positions(call.events)
        stops == The(result.stopAnalysis).stops
    IN /\ \A a, b \in 1..Len(positions) :
            QualifyingRun(positions, a, b) <=>
              \E k \in 1..Len(stops) : stops[k].first = a /\ stops[k].last = b
       /\ \A j, k \in 1..Len(stops) :
            (stops[j].first = stops[k].first /\ stops[j].last = stops[k].last) => j = k

Field(analysis) ==
  CASE analysis = "speed" -> "speedAnalysis"
    [] analysis = "pattern" -> "patternAnalysis"
    [] analysis = "stops" -> "stopAnalysis"
    [] analysis = "anomaly" -> "anomalyAnalysis"

\* C17 (as claimed): the result of each selected analysis is the one the same
\* track yields when that analysis is selected alone
C17_Original ==
  Analysed =>
    \A a \in AnalysisTypes(call.params) :
      result[Field(a)] =
        AnalyzeMovement(call.events, [call.params EXCEPT !.analysisType = Some({a})])[Field(a)]

\* C18 (as claimed, speed being selected with anomaly): a segment with positive
\* time difference is flagged iff its speed exceeds averageSpeed * (1 + threshold),
\* the threshold being the caller's or 0.8
C18_Original ==
  (Analysed /\ {"speed", "anomaly"} \subseteq AnalysisTypes(call.params)) =>
    LET positions == Positions(call.events)
        avg == The(result.speedAnalysis).averageSpeed
        anomalies == The(result.anomalyAnalysis).anomalies
        tenths == IF call.params.anomalyThreshold = None THEN 8
                  ELSE The(call.params.anomalyThreshold)
    IN \A i \in 2..Len(positions) :
         SegTimeDiff(positions, i) > 0 =>
           ((\E k \in 1..Len(anomalies) : anomalies[k].at = i)
              <=> Speed(SegDistance(positions, i), SegTimeDiff(positions, i)) * avg.count * 10
                    > avg.sum * (10 + tenths))

\* ------------------------------------------------------------------------
\* The normalizer: parseCotEvent and the entity built from it (C19, C20)
\* ------------------------------------------------------------------------
\* positions are in half metres along the meridian and the equator
HalfMetresPerDegree == 2 * 111195
LatLimit == 90 * HalfMetresPerDegree
LonLimit == 180 * HalfMetresPerDegree

\* the events of the normalizer runs: the base event with one field left out or
\* out of range, or with its altitude and accuracies 0, known, left out or 999999
NormalEvents ==
  {[BaseEvent EXCEPT !.uid = u] : u \in UIDs \cup {Undefined}}
  \cup {[BaseEvent EXCEPT !.time = InvalidDate]}
  \cup {[BaseEvent EXCEPT !.uid = u, !.lat = p] :
          u \in UIDs, p \in {NaN, LatLimit, LatLimit + 1, 0 - LatLimit - 1}}
  \cup {[BaseEvent EXCEPT !.lon = p] : p \in {NaN, LonLimit + 1}}
  \cup {[BaseEvent EXCEPT !.uid = u, !.hae = h, !.ce = c, !.le = c] :
          u \in UIDs, h \in {0, NaN, UnknownValue}, c \in {0, NaN, UnknownValue}}

NormalNext ==
  \/ \E e \in NormalEvents : gePc = "idle" /\ ReceiveEvent(e)
  \/ GetEntitiesCall(NoParams)
  \/ GetEntitiesStep
  \/ GetEntitiesReturn

SpecNormal == Init /\ [][NormalNext]_vars

\* uid and time are there, lat and lon are there and within their ranges
ValidReport(uid, time, lat, lon) ==
  /\ uid # Undefined
  /\ time # InvalidDate
  /\ lat # NaN /\ 0 - LatLimit <= lat /\ lat <= LatLimit
  /\ lon # NaN /\ 0 - LonLimit <= lon /\ lon <= LonLimit

\* C19 (as claimed): no event that lacks uid, time, lat or lon, or whose lat or
\* lon is out of range, comes out of parseCotEvent as a report, and none reaches
\* the reconciliation of getEntities or the entities it returns
C19_Original ==
  /\ \A k \in 1..Len(geEvents) :
       ValidReport(geEvents[k].uid, geEvents[k].time,
                   geEvents[k].point.lat, geEvents[k].point.lon)
  /\ \A k \in 1..Len(entitiesMap) :
       ValidReport(entitiesMap[k].uid, entitiesMap[k].lastUpdate,
                   entitiesMap[k].location.lat, entitiesMap[k].location.lon)

\* a value as reported: known unless it is left out or the sentinel 999999
Known(x) == x # NaN /\ x # UnknownValue

\* C20 (as claimed): through parseCotEvent a known hae, ce or le, 0 included,
\* keeps its value and an unknown one becomes the unknown; the entity built from
\* the only event of its uid has the known altitude, or none when it is unknown
C20_Original ==
  gePc = "done" =>
    /\ \A i \in 1..Len(events) :
         /\ Known(events[i].hae) <=> geEvents[i].point.hae # UnknownValue
         /\ Known(events[i].ce) <=> geEvents[i].point.ce # UnknownValue
         /\ Known(events[i].le) <=> geEvents[i].point.le # UnknownValue
         /\ Known(events[i].hae) => geEvents[i].point.hae = events[i].hae
         /\ Known(events[i].ce) => geEvents[i].point.ce = events[i].ce
         /\ Known(events[i].le) => geEvents[i].point.le = events[i].le
    /\ \A i \in 1..Len(events) :
         (\A j \in 1..Len(events) : events[j].uid = events[i].uid => j = i) =>
           MapGet(geResult, events[i].uid).location.alt
             = (IF Known(events[i].hae) THEN Some(events[i].hae) ELSE None)

\* ------------------------------------------------------------------------
\* tak_analyze_movement: the track history (C22)
\* ------------------------------------------------------------------------
\* the reports of the entity the TAK server holds within the requested window
InWindow ==
  {i \in 1..Len(events) : /\ events[i].uid = call.params.entityId
                          /\ call.startTime <= events[i].time
                          /\ events[i].time <= call.endTime}

\* the TAK server answered the GET of /api/cot/xml/<uid> with an event
Answered == call.events # <<>>

\* C22 (as claimed): the events tak_analyze_movement analyses are exactly the
\* reports of the requested entity whose time lies in [startTime, endTime], all
\* of them and no other, and the positions are in non-decreasing time order
C22_Original ==
  (MovementDone /\ events # <<>> /\ Answered) =>
    /\ Len(call.events) = Cardinality(InWindow)
    /\ Range(call.events) = {ParseCotEvent(events[i]) : i \in InWindow}
    /\ result.dataPoints = Cardinality(InWindow)
    /\ LET positions == Positions(call.events)
       IN \A i \in 1..Len(positions) - 1 : positions[i].time <= positions[i + 1].time

\* ------------------------------------------------------------------------
\* tak_send_cot_event and tak_send_emergency (C21, C30)
\* ------------------------------------------------------------------------
EventUid == "uuid-1"            \* uuidv4()
EmergencyId == "emergency-1"    \* `emergency-${uuidv4()}`

\* the CotMessage of tak_send_cot_event: time and start are now, stale is
\* (params.staleMinutes || 5) minutes later
SendCotEventMessage(params, clock) ==
  [uid |-> IF params.uid = None THEN EventUid ELSE The(params.uid),
   type |-> <<"a", "f", "G", "U", "C">>,
   time |-> clock, start |-> clock,
   stale |-> clock + (IF Not(params.staleMinutes) THEN 5 ELSE The(params.staleMinutes)),
   point |-> [lat |-> params.location[1], lon |-> params.location[2], hae |-> 0,
              ce |-> UnknownValue, le |-> UnknownValue],
   detail |-> [callsign |-> "MCP-EVENT"]]

\* the handler of tak_send_cot_event up to await takClient.sendCotEvent
SendCotEventCall(params) ==
  /\ call = NoCall /\ NoResult
  /\ call' = [tool |-> "tak_send_cot_event", pc |-> "send", params |-> params,
              cotMessage |-> SendCotEventMessage(params, now)]
  /\ UNCHANGED <<events, now, geVars, result, fxVars, netVars>>

\* the POST succeeds: the handler returns the event
SendCotEventSent ==
  /\ call.tool = "tak_send_cot_event" /\ call.pc = "send"
  /\ sent' = Append(sent, call.cotMessage)
  /\ result' = [tool |-> "tak_send_cot_event", success |-> TRUE,
                uid |-> call.cotMessage.uid, time |-> call.cotMessage.time,
                stale |-> call.cotMessage.stale]
  /\ call' = [call EXCEPT !.pc = "done"]
  /\ UNCHANGED <<events, now, geVars, containment, alerts, netVars>>

\* the POST fails: the catch block logs and throws the error again
SendCotEventFails ==
  /\ call.tool = "tak_send_cot_event" /\ call.pc = "send"
  /\ result' = [tool |-> "tak_send_cot_event", success |-> FALSE,
                thrown |-> <<"Request failed">>]
  /\ call' = [call EXCEPT !.pc = "done"]
  /\ UNCHANGED <<events, now, geVars, fxVars, netVars>>

\* cotTypeMap[params.type] || 'b-a-o-oth'
EmergencyCotType(type) ==
  CASE type = "911" -> <<"b", "a", "o", "tbl">>
    [] type = "panic" -> <<"b", "a", "o", "pan">>
    [] type = "medical" -> <<"b", "a", "o", "med">>
    [] type = "fire" -> <<"b", "a", "o", "fir">>
    [] type = "hostile" -> <<"b", "a", "o", "can">>
    [] type = "breakdown" -> <<"b", "a", "o", "veh">>
    [] OTHER -> <<"b", "a", "o", "oth">>

\* the catch block of tak_send_emergency
EmergencyCatch(message) == Failure("tak_send_emergency", "TAK_EMERGENCY_ERROR", message)

\* emergencyEvent: time and start are timestamp, stale is 4 hours after Date.now()
EmergencyEvent(params, emergencyLocation, clock) ==
  [uid |-> EmergencyId, type |-> EmergencyCotType(params.type),
   time |-> clock, start |-> clock, stale |-> clock + 4 * 60,
   point |-> [lat |-> emergencyLocation[1], lon |-> emergencyLocation[2], hae |-> 0,
              ce |-> 10, le |-> 10],
   detail |-> [emergency |-> params.type, remarks |-> params.message]]

\* the handler of tak_send_emergency up to await takClient.sendCotEvent: the
\* location, from the params or from the entity of getEntities, and the event
SendEmergencyCall(params) ==
  /\ call = NoCall /\ NoResult
  /\ LET entities == GetEntities(events, NoParams, now)
         location == params.location
         Running(coords) == [tool |-> "tak_send_emergency", pc |-> "event", params |-> params,
                             emergencyLocation |-> Some(coords),
                             emergencyEvent |-> Some(EmergencyEvent(params, coords, now))]
         Thrown == [tool |-> "tak_send_emergency", pc |-> "done", params |-> params,
                    emergencyLocation |-> None, emergencyEvent |-> None]
     IN IF location.coordinates # None
        THEN call' = Running(The(location.coordinates)) /\ UNCHANGED result
        ELSE IF location.entityId # None
        THEN IF MapHas(entities, The(location.entityId))
             THEN /\ call' = Running(Coords(MapGet(entities, The(location.entityId))))
                  /\ UNCHANGED result
             ELSE /\ result' = EmergencyCatch(NotFound(The(location.entityId)))
                  /\ call' = Thrown
        ELSE /\ result' = EmergencyCatch(NoPoint)
             /\ call' = Thrown
  /\ UNCHANGED <<events, now, geVars, fxVars, netVars>>

\* await takClient.sendCotEvent resolves: the handler goes on to sendAlert
EmergencyEventSent ==
  /\ call.tool = "tak_send_emergency" /\ call.pc = "event"
  /\ sent' = Append(sent, The(call.emergencyEvent))
  /\ call' = [call EXCEPT !.pc = "alert"]
  /\ UNCHANGED <<events, now, geVars, result, containment, alerts, netVars>>

\* await takClient.sendCotEvent rejects: the catch block answers
EmergencyEventFails ==
  /\ call.tool = "tak_send_emergency" /\ call.pc = "event"
  /\ result' = EmergencyCatch(<<"Request failed">>)
  /\ call' = [call EXCEPT !.pc = "done"]
  /\ UNCHANGED <<events, now, geVars, fxVars, netVars>>

\* the success payload of tak_send_emergency
EmergencySuccess(params, nearbyUnits) ==
  [tool |-> "tak_send_emergency", success |-> TRUE, emergencyId |-> EmergencyId,
   notifiedUnits |-> Len(nearbyUnits), nearbyUnits |-> Slice(nearbyUnits, 10)]

\* await takClient.sendAlert resolves; without params.notifyRadius > 0 the
\* handler returns, with it the handler goes on to getEntities
EmergencyAlertSent ==
  /\ call.tool = "tak_send_emergency" /\ call.pc = "alert"
  /\ alertsPosted' = Append(alertsPosted,
                            [type |-> <<"emergency", call.params.type>>,
                             message |-> call.params.message,
                             point |-> The(call.emergencyLocation),
                             severity |-> call.params.severity])
  /\ IF call.params.notifyRadius # None /\ The(call.params.notifyRadius) > 0
     THEN call' = [call EXCEPT !.pc = "notify"] /\ UNCHANGED result
     ELSE /\ call' = [call EXCEPT !.pc = "done"]
          /\ result' = EmergencySuccess(call.params, <<>>)
  /\ UNCHANGED <<events, now, geVars, fxVars, ioVars>>

\* await takClient.sendAlert rejects: the catch block answers
EmergencyAlertFails ==
  /\ call.tool = "tak_send_emergency" /\ call.pc = "alert"
  /\ result' = EmergencyCatch(<<"Request failed">>)
  /\ call' = [call EXCEPT !.pc = "done"]
  /\ UNCHANGED <<events, now, geVars, fxVars, netVars>>

\* nearbyUnits: the entities within notifyRadius metres of the emergency other
\* than params.location.entityId, by the distance sqrt(latDiff^2 + lonDiff^2) *
\* 111000 of positions of one meridian (lat in half metres), nearest first
NearbyUnits(allEntities, emergencyLocation, params) ==
  LET distance(e) == (Abs(e.location.lat - emergencyLocation[1]) * 111000 + 111195)
                       \div (2 * 111195)
      near == Keep(allEntities,
                   LAMBDA e : /\ Abs(e.location.lat - emergencyLocation[1]) * 111000
                                   <= The(params.notifyRadius) * 2 * 111195
                              /\ params.location.entityId # Some(e.uid))
  IN SortByDistance([i \in 1..Len(near) |->
                       [uid |-> near[i].uid, distance |-> distance(near[i])]])

\* the units to notify: getEntities, the loop, the sort and the return
EmergencyNotified ==
  /\ call.tool = "tak_send_emergency" /\ call.pc = "notify"
  /\ result' = EmergencySuccess(call.params,
                                NearbyUnits(GetEntities(events, NoParams, now),
                                            The(call.emergencyLocation), call.params))
  /\ call' = [call EXCEPT !.pc = "done"]
  /\ UNCHANGED <<events, now, geVars, fxVars, netVars>>

\* the events of the alert runs: two entities near the emergency
AlertEvents == {[BaseEvent EXCEPT !.uid = u, !.lat = p] : u \in UIDs, p \in {0, 1}}

SendEventParams ==
  {[uid |-> u, location |-> <<1, 0>>, staleMinutes |-> sm] :
     u \in {None, Some("e1")},
     sm \in {None, Some(0), Some(1), Some(0 - 1), Some(0 - 10)}}

EmergencyParams ==
  {[type |-> ty, message |-> "m", location |-> loc, severity |-> None, notifyRadius |-> nr] :
     ty \in {"911", "other"},
     loc \in {At(1), Of("u1"), Of(MissingUid), NoPointGiven},
     nr \in {None, Some(0), Some(1)}}

\* the geofences of the alert runs: one of each shape
AlertGeofenceParams ==
  {params \in GeofenceParams :
     /\ params.triggers = None
     /\ params.shape.center \in {None, Some(<<1, 0>>)}
     /\ params.shape.type \in {"circle", "polygon"}}

AlertsNext ==
  \/ \E e \in AlertEvents : call = NoCall /\ ReceiveEvent(e)
  \/ call = NoCall /\ Tick
  \/ \E params \in SendEventParams : SendCotEventCall(params)
  \/ SendCotEventSent
  \/ SendCotEventFails
  \/ \E params \in EmergencyParams : SendEmergencyCall(params)
  \/ EmergencyEventSent
  \/ EmergencyEventFails
  \/ EmergencyAlertSent
  \/ EmergencyAlertFails
  \/ EmergencyNotified
  \/ \E params \in AlertGeofenceParams : CreateGeofenceCall(params)
  \/ CreateGeofenceSent
  \/ CreateGeofenceSendFails

SpecAlerts == Init /\ [][AlertsNext]_vars

\* C21 (as claimed): every CoT event dispatched by tak_send_cot_event,
\* tak_send_emergency and tak_create_geofence has time = start and time <= stale
C21_Original ==
  \A i \in 1..Len(sent) : sent[i].time = sent[i].start /\ sent[i].time <= sent[i].stale

EmergencyDone == call.tool = "tak_send_emergency" /\ call.pc = "done"

\* C30 (as claimed): the alert is posted only after the emergency CoT event was
\* dispatched, success is returned only after both were sent, and no failure is
\* returned once the emergency CoT event has been dispatched
C30_Original ==
  /\ alertsPosted # <<>> => sent # <<>>
  /\ EmergencyDone =>
       IF result.success THEN sent # <<>> /\ alertsPosted # <<>>
       ELSE sent = <<>>

\* ------------------------------------------------------------------------
\* tak_subscribe_events (C24)
\* ------------------------------------------------------------------------
MaxSockets == 3          \* subscriptions one run makes

\* params.duration || 300, in seconds
Duration(params) == IF Not(params.duration) THEN 300 ELSE The(params.duration)

\* the minute at which a subscription made at minute clock is over
Due(clock, duration) == clock + duration \div 60

\* TAKServerClient.unsubscribe: this.ws, if set, is closed and forgotten
Unsubscribe(w, socks, clock) ==
  IF w # None
  THEN [ws |-> None,
        sockets |-> [socks EXCEPT ![The(w)].open = FALSE, ![The(w)].closedAt = Some(clock)]]
  ELSE [ws |-> w, sockets |-> socks]

\* the handler of tak_subscribe_events: subscribeToCotEvents sets this.ws to a
\* new WebSocket, setTimeout arms the unsubscribe, the handler returns
SubscribeEvents(params) ==
  /\ Len(sockets) < MaxSockets
  /\ LET id == Len(sockets) + 1
         duration == Duration(params)
     IN /\ sockets' = Append(sockets, [open |-> TRUE, openedAt |-> now,
                                       duration |-> duration, closedAt |-> None])
        /\ ws' = Some(id)
        /\ timers' = timers \cup {[id |-> id, due |-> Due(now, duration)]}
        /\ call' = [tool |-> "tak_subscribe_events", pc |-> "done", params |-> params]
        /\ result' = [tool |-> "tak_subscribe_events", success |-> TRUE,
                      status |-> "subscribed", duration |-> duration]
  /\ UNCHANGED <<events, now, geVars, fxVars, alertsPosted, mcpVars, sseVars, rpcVars>>

\* the callback of setTimeout runs: await takClient.unsubscribe()
SubscriptionTimeout(t) ==
  /\ t \in timers
  /\ t.due <= now
  /\ LET after == Unsubscribe(ws, sockets, now)
     IN ws' = after.ws /\ sockets' = after.sockets
  /\ timers' = timers \ {t}
  /\ UNCHANGED <<events, now, geVars, toolVars, fxVars, alertsPosted, mcpVars, sseVars,
                 rpcVars>>

\* the clock advances once the callbacks that are due have run
SubscriptionTick ==
  /\ \A t \in timers : t.due > now
  /\ Tick

SubscribeParams == {[duration |-> d] : d \in {None, Some(60), Some(120)}}

SubscriptionsNext ==
  \/ \E params \in SubscribeParams : SubscribeEvents(params)
  \/ \E t \in timers : SubscriptionTimeout(t)
  \/ SubscriptionTick

SpecSubscriptions == Init /\ [][SubscriptionsNext]_vars

\* C24 (as claimed): every subscription is closed when its own duration has
\* elapsed and not before: its socket is open up to that minute and closed at
\* that minute, whatever other subscriptions were made or ended
C24_Original ==
  \A i \in 1..Len(sockets) :
    LET due == Due(sockets[i].openedAt, sockets[i].duration)
    IN IF sockets[i].open THEN now <= due ELSE sockets[i].closedAt = Some(due)

\* ------------------------------------------------------------------------
\* The MCP server: getConfig, tools/list, tools/call, the HTTP transport
\* (C25, C26)
\* ------------------------------------------------------------------------
MaxRequests == 2         \* requests one run makes

\* a || b of two optional strings: a unless it is left out or empty
OrElse(a, b) == IF a # None /\ The(a) # "" THEN a ELSE b

\* Joi.string().required(): a string that is there and not empty
RequiredString(x) == x # None /\ The(x) # ""

\* getConfig: the mcp.auth of the config file, replaced when MCP_AUTH_ENABLED is
\* 'true' by { enabled, method } with the oauth of the environment (the oauth
\* of the file is gone with the object replaced); then configSchema.validate
GetConfig(file, env) ==
  LET fileAuth == file.mcp.auth
      method == OrElse(env.MCP_AUTH_METHOD,
                       OrElse(IF fileAuth = None THEN None ELSE The(fileAuth).method,
                              Some("apikey")))
      auth == IF env.MCP_AUTH_ENABLED = Some("true")
              THEN Some([enabled |-> TRUE, method |-> method,
                         oauth |-> IF method = Some("oauth2")
                                   THEN Some([clientId |-> OrElse(env.MCP_OAUTH_CLIENT_ID, Some("")),
                                              clientSecret |->
                                                OrElse(env.MCP_OAUTH_CLIENT_SECRET, Some(""))])
                                   ELSE None])
              ELSE fileAuth
      valid == \/ auth = None
               \/ /\ The(auth).method \in {None, Some("oauth2"), Some("apikey"), Some("basic")}
                  /\ \/ The(auth).oauth = None
                     \/ /\ RequiredString(The(The(auth).oauth).clientId)
                        /\ RequiredString(The(The(auth).oauth).clientSecret)
  IN [ok |-> valid, value |-> [tools |-> file.tools, mcp |-> [auth |-> auth], env |-> env]]

\* main: const config = getConfig(); an invalid configuration ends the process.
\* The field env is process.env, which the transports read on every request.
Main(file, env) ==
  /\ config = None
  /\ GetConfig(file, env).ok
  /\ config' = Some(GetConfig(file, env).value)
  /\ UNCHANGED <<events, now, geVars, toolVars, fxVars, alertsPosted, subVars, listed,
                 executed, httpLog, sseVars, rpcVars>>

\* the tools the ToolRegistry registers, in the order of its constructor
RegisteredTools ==
  <<"tak_get_cot_events", "tak_send_cot_event", "tak_subscribe_events", "tak_get_entities",
    "tak_spatial_query", "tak_calculate_distance", "tak_find_nearest", "tak_create_geofence",
    "tak_analyze_movement", "tak_get_missions", "tak_get_alerts", "tak_send_emergency",
    "tak_manage_data_packages">>

\* ToolRegistry.getTool: is there a tool of that name
GetTool(name) == name \in Range(RegisteredTools)

\* ToolRegistry.getEnabledTools
GetEnabledTools(enabledList) ==
  IF enabledList = None \/ Len(The(enabledList)) = 0 THEN RegisteredTools
  ELSE Keep(RegisteredTools, LAMBDA tool : tool \in Range(The(enabledList)))

\* the handler of ListToolsRequestSchema
ListTools ==
  /\ config # None
  /\ listed' = Some(GetEnabledTools(The(config).tools.enabledTools))
  /\ UNCHANGED <<events, now, geVars, toolVars, fxVars, alertsPosted, subVars, config,
                 executed, httpLog, sseVars, rpcVars>>

\* the handler of CallToolRequestSchema: the tool found by its name is run
CallTool(name) ==
  /\ config # None
  /\ Len(executed) < MaxRequests
  /\ executed' = IF GetTool(name) THEN Append(executed, name) ELSE executed
  /\ UNCHANGED <<events, now, geVars, toolVars, fxVars, alertsPosted, subVars, config,
                 listed, httpLog, sseVars, rpcVars>>

\* a JSON Web Token and the secret it was signed with; another string is no token
JwtSignedWith(token) ==
  CASE token = "jwt.s1" -> Some("s1")
    [] token = "jwt.s2" -> Some("s2")
    [] OTHER -> None

\* jwt.verify(token, secret) returns: the secret has a value and signed the token
JwtVerify(token, secret) == RequiredString(secret) /\ JwtSignedWith(token) = secret

\* Buffer.from(x, 'base64').toString('ascii').split(':')
Base64Credentials(x) ==
  CASE x = "YWxpY2U6cHc=" -> <<"alice", "pw">>
    [] x = "YWxpY2U6bm8=" -> <<"alice", "no">>
    [] x = "YWxpY2U=" -> <<"alice">>
    [] OTHER -> <<"?">>

\* authMiddleware on the Authorization header, given as its parts between
\* blanks: "next", or the status answered (500 for the TypeError of
\* Buffer.from(undefined) that express answers)
AuthMiddleware(auth, env, authHeader) ==
  IF authHeader = None THEN "401"
  ELSE LET header == The(authHeader)
       IN CASE auth.method = Some("oauth2") ->
                 LET token == IF header[1] = "Bearer" /\ Len(header) = 2
                              THEN header[2] ELSE "not a token"
                 IN IF auth.oauth # None /\ JwtVerify(token, The(auth.oauth).clientSecret)
                    THEN "next" ELSE "401"
            [] auth.method = Some("apikey") ->
                 IF header # <<"Bearer", IF env.MCP_API_KEY = None THEN "undefined"
                                         ELSE The(env.MCP_API_KEY)>>
                 THEN "401" ELSE "next"
            [] auth.method = Some("basic") ->
                 IF Len(header) < 2 THEN "500"
                 ELSE LET credentials == Base64Credentials(header[2])
                          username == Some(credentials[1])
                          password == IF Len(credentials) >= 2 THEN Some(credentials[2])
                                      ELSE None
                      IN IF username # env.MCP_USERNAME \/ password # env.MCP_PASSWORD
                         THEN "401" ELSE "next"
            [] OTHER -> "next"

\* POST /mcp or /mcp/batch (an array): the middleware, when auth is enabled,
\* then the route hands the request to the MCP server
HttpPost(path, authHeader) ==
  /\ config # None
  /\ Len(httpLog) < MaxRequests
  /\ LET auth == The(config).mcp.auth
         enabled == auth # None /\ The(auth).enabled
         verdict == IF enabled THEN AuthMiddleware(The(auth), The(config).env, authHeader)
                    ELSE "next"
     IN httpLog' = Append(httpLog, [path |-> path, authHeader |-> authHeader,
                                    status |-> IF verdict = "next" THEN "200" ELSE verdict,
                                    forwarded |-> verdict = "next"])
  /\ UNCHANGED <<events, now, geVars, toolVars, fxVars, alertsPosted, subVars, config,
                 listed, executed, sseVars, rpcVars>>

\* the environment of the runs without authentication
NoEnv ==
  [MCP_AUTH_ENABLED |-> None, MCP_AUTH_METHOD |-> None, MCP_OAUTH_CLIENT_ID |-> None,
   MCP_OAUTH_CLIENT_SECRET |-> None, MCP_API_KEY |-> None, MCP_USERNAME |-> None,
   MCP_PASSWORD |-> None]

EnabledLists ==
  {None, Some(<<>>), Some(<<"tak_get_entities">>), Some(<<"tak_send_emergency">>),
   Some(<<"tak_find_nearest", "tak_get_entities", "tak_no_such_tool">>)}

ToolFiles == {[tools |-> [enabledTools |-> l], mcp |-> [auth |-> None]] : l \in EnabledLists}

ToolNames == {"tak_get_entities", "tak_find_nearest", "tak_send_emergency", "tak_no_such_tool"}

ToolsNext ==
  \/ \E file \in ToolFiles : Main(file, NoEnv)
  \/ ListTools
  \/ \E name \in ToolNames : CallTool(name)

SpecTools == Init /\ [][ToolsNext]_vars

\* C25 (as claimed): with a non-empty tools.enabledTools, tools/list returns
\* exactly the registered tools named in the list and tools/call runs a tool
\* only if its name is in the list
C25_Original ==
  (config # None /\ The(config).tools.enabledTools # None
     /\ Len(The(The(config).tools.enabledTools)) > 0) =>
    LET enabled == Range(The(The(config).tools.enabledTools))
    IN /\ listed # None => Range(The(listed)) = Range(RegisteredTools) \cap enabled
       /\ \A i \in 1..Len(executed) : executed[i] \in enabled

FileAuths ==
  {None, Some([enabled |-> FALSE, method |-> None, oauth |-> None])}
  \cup {Some([enabled |-> TRUE, method |-> m, oauth |-> o]) :
          m \in {None, Some("oauth2"), Some("apikey"), Some("basic")},
          o \in {None, Some([clientId |-> Some("id"), clientSecret |-> Some("s1")])}}

HttpFiles == {[tools |-> [enabledTools |-> None], mcp |-> [auth |-> a]] : a \in FileAuths}

HttpEnvs ==
  {[MCP_AUTH_ENABLED |-> en, MCP_AUTH_METHOD |-> m, MCP_OAUTH_CLIENT_ID |-> Some("id"),
    MCP_OAUTH_CLIENT_SECRET |-> sec, MCP_API_KEY |-> key, MCP_USERNAME |-> up[1],
    MCP_PASSWORD |-> up[2]] :
     en \in {None, Some("true")}, m \in {None, Some("oauth2")}, sec \in {None, Some("s1")},
     key \in {None, Some("key1")},
     up \in {<<None, None>>, <<Some("alice"), Some("pw")>>, <<Some("alice"), None>>}}

AuthHeaders ==
  {None, Some(<<"Bearer", "key1">>), Some(<<"Bearer", "undefined">>),
   Some(<<"Bearer", "jwt.s1">>), Some(<<"Bearer", "jwt.s2">>),
   Some(<<"Basic", "YWxpY2U6cHc=">>), Some(<<"Basic", "YWxpY2U6bm8=">>),
   Some(<<"Basic", "YWxpY2U=">>), Some(<<"Basic">>)}

HttpNext ==
  \/ \E file \in HttpFiles, env \in HttpEnvs : Main(file, env)
  \/ \E path \in {"/mcp", "/mcp/batch"}, authHeader \in AuthHeaders :
       HttpPost(path, authHeader)

SpecHttp == Init /\ [][HttpNext]_vars

\* the credentials of the header are valid for the configured method: the
\* configured API key, a token signed with the configured client secret, or
\* the configured user name and password
ValidCredentials(auth, env, authHeader) ==
  /\ authHeader # None
  /\ CASE auth.method = Some("apikey") ->
            env.MCP_API_KEY # None /\ The(authHeader) = <<"Bearer", The(env.MCP_API_KEY)>>
       [] auth.method = Some("oauth2") ->
            /\ auth.oauth # None
            /\ Len(The(authHeader)) = 2 /\ The(authHeader)[1] = "Bearer"
            /\ JwtSignedWith(The(authHeader)[2]) = The(auth.oauth).clientSecret
       [] auth.method = Some("basic") ->
            /\ env.MCP_USERNAME # None /\ env.MCP_PASSWORD # None
            /\ Len(The(authHeader)) = 2 /\ The(authHeader)[1] = "Basic"
            /\ Base64Credentials(The(authHeader)[2])
                 = <<The(env.MCP_USERNAME), The(env.MCP_PASSWORD)>>
       [] OTHER -> FALSE

\* C26 (as claimed): with mcp.auth.enabled, a POST of /mcp or /mcp/batch is
\* handed to the MCP server only with credentials valid for the configured
\* method, and a request without them is answered 401 and not processed
C26_Original ==
  (config # None /\ The(config).mcp.auth # None /\ The(The(config).mcp.auth).enabled) =>
    \A i \in 1..Len(httpLog) :
      LET valid == ValidCredentials(The(The(config).mcp.auth), The(config).env,
                                    httpLog[i].authHeader)
      IN /\ httpLog[i].forwarded => valid
         /\ ~valid => httpLog[i].status = "401" /\ ~httpLog[i].forwarded

\* ------------------------------------------------------------------------
\* SSEServerTransport: the clients Map (C27)
\* ------------------------------------------------------------------------
\* GET /sse: the client is registered under its X-Client-ID, or under a
\* uuidv4(), with the response of this connection; an entry of that id is replaced
SseConnect(header) ==
  /\ Len(connections) < MaxConnections
  /\ LET n == Len(connections) + 1
         clientId == IF header = None THEN Uuids[n] ELSE The(header)
     IN /\ connections' = Append(connections, [clientId |-> clientId, state |-> "open"])
        /\ clients' = [clients EXCEPT ![clientId] = Some([response |-> n, lastActivity |-> now])]
  /\ UNCHANGED <<events, now, geVars, toolVars, fxVars, alertsPosted, subVars, mcpVars,
                 rpcVars>>

\* req.on('close') of connection n, after the client went away or after the
\* cleanup ended the response: this.clients.delete(clientId)
SseClose(n) ==
  /\ n \in 1..Len(connections)
  /\ connections[n].state \in {"open", "ended"}
  /\ connections' = [connections EXCEPT ![n].state = "closed"]
  /\ clients' = [clients EXCEPT ![connections[n].clientId] = None]
  /\ UNCHANGED <<events, now, geVars, toolVars, fxVars, alertsPosted, subVars, mcpVars,
                 rpcVars>>

\* POST /sse/request: 400 without a registered X-Client-ID; else lastActivity
\* is now, the request is processed and the answer is 200
SseRequest(header) ==
  /\ IF header = None \/ clients[The(header)] = None
     THEN /\ result' = [tool |-> "/sse/request", status |-> 400, clientId |-> header]
          /\ UNCHANGED clients
     ELSE /\ result' = [tool |-> "/sse/request", status |-> 200, clientId |-> header]
          /\ clients' = [clients EXCEPT ![The(header)] =
                           Some([The(clients[The(header)]) EXCEPT !.lastActivity = now])]
  /\ UNCHANGED <<events, now, geVars, call, fxVars, alertsPosted, subVars, mcpVars,
                 connections, rpcVars>>

\* now.getTime() - client.lastActivity.getTime() > timeout, timeout 5 minutes
Inactive(client, clock) == clock - client.lastActivity > 5

\* the callback of startCleanup's setInterval: the response of every inactive
\* client is ended and the client is deleted
SseCleanup ==
  /\ \E id \in ClientIds : clients[id] # None /\ Inactive(The(clients[id]), now)
  /\ LET gone == {id \in ClientIds : clients[id] # None /\ Inactive(The(clients[id]), now)}
         ended == {The(clients[id]).response : id \in gone}
     IN /\ clients' = [id \in ClientIds |-> IF id \in gone THEN None ELSE clients[id]]
        /\ connections' = [n \in 1..Len(connections) |->
                             IF n \in ended /\ connections[n].state = "open"
                             THEN [connections[n] EXCEPT !.state = "ended"]
                             ELSE connections[n]]
  /\ UNCHANGED <<events, now, geVars, toolVars, fxVars, alertsPosted, subVars, mcpVars,
                 rpcVars>>

ClientHeaders == {None, Some(<<"c1">>), Some(<<"c2">>)}

SseNext ==
  \/ \E header \in ClientHeaders : SseConnect(header)
  \/ \E n \in 1..MaxConnections : SseClose(n)
  \/ \E header \in ClientHeaders : SseRequest(header)
  \/ SseCleanup
  \/ connections # <<>> /\ Tick

SpecSse == Init /\ [][SseNext]_vars

\* C27 (as claimed): a client whose SSE connection is open stays registered
\* until its own connection closes or the cleanup removes it for inactivity;
\* the closing of another connection does not unregister it
C27_Original ==
  \A n \in 1..Len(connections) :
    connections[n].state = "open" => clients[connections[n].clientId] # None

\* ------------------------------------------------------------------------
\* MCPClient over WebSocket: callMethod, wsCall, the message handler (C28)
\* ------------------------------------------------------------------------
MaxCalls == 3            \* calls of callMethod one run makes

\* connectWebSocket: the socket opens
McpConnect ==
  /\ ~wsOpen
  /\ wsOpen' = TRUE
  /\ UNCHANGED <<events, now, geVars, toolVars, fxVars, alertsPosted, subVars, mcpVars,
                 sseVars, requestId, pendingRequests, rpcTimers, settled>>

\* disconnect, or the socket closes
McpDisconnect ==
  /\ wsOpen
  /\ wsOpen' = FALSE
  /\ UNCHANGED <<events, now, geVars, toolVars, fxVars, alertsPosted, subVars, mcpVars,
                 sseVars, requestId, pendingRequests, rpcTimers, settled>>

\* callMethod on the ws transport: const id = ++this.requestId, then wsCall,
\* which throws without an open socket and else registers the promise under
\* the id, sends the request and arms the timeout
CallMethod(method) ==
  /\ requestId < MaxCalls
  /\ requestId' = requestId + 1
  /\ IF wsOpen
     THEN /\ pendingRequests' = pendingRequests \cup {requestId + 1}
          /\ rpcTimers' = rpcTimers \cup {requestId + 1}
          /\ result' = [tool |-> method, id |-> requestId + 1, thrown |-> FALSE]
     ELSE /\ result' = [tool |-> method, id |-> requestId + 1, thrown |-> TRUE]
          /\ UNCHANGED <<pendingRequests, rpcTimers>>
  /\ UNCHANGED <<events, now, geVars, call, fxVars, alertsPosted, subVars, mcpVars,
                 sseVars, wsOpen, settled>>

\* mutant of Settle: the promise is settled and the id stays pending
SettleKeepsPending(pending, log, id, how) ==
  [pendingRequests |-> pending, settled |-> Append(log, [id |-> id, how |-> how])]

\* this.pendingRequests.delete(id), then resolve or reject
Settle(pending, log, id, how) ==
  [pendingRequests |-> pending \ {id}, settled |-> Append(log, [id |-> id, how |-> how])]

\* ws.on('message'): a message whose id is truthy and pending settles that
\* request, with its error or its result; another message settles nothing
WsMessage(id, error) ==
  /\ wsOpen
  /\ id # 0 /\ id \in pendingRequests
  /\ LET after == Settle(pendingRequests, settled, id, IF error THEN "rejected" ELSE "resolved")
     IN pendingRequests' = after.pendingRequests /\ settled' = after.settled
  /\ UNCHANGED <<events, now, geVars, toolVars, fxVars, alertsPosted, subVars, mcpVars,
                 sseVars, wsOpen, requestId, rpcTimers>>

\* a message that is no response to a pending request: nothing is settled
WsMessageIgnored(id) ==
  /\ wsOpen
  /\ ~(id # 0 /\ id \in pendingRequests)
  /\ result' = [tool |-> "message", id |-> id, thrown |-> FALSE]
  /\ UNCHANGED <<events, now, geVars, call, fxVars, alertsPosted, subVars, mcpVars,
                 sseVars, rpcVars>>

\* the callback of wsCall's setTimeout: a request still pending is rejected
RpcTimeout(id) ==
  /\ id \in rpcTimers
  /\ rpcTimers' = rpcTimers \ {id}
  /\ IF id \in pendingRequests
     THEN LET after == Settle(pendingRequests, settled, id, "timeout")
          IN pendingRequests' = after.pendingRequests /\ settled' = after.settled
     ELSE UNCHANGED <<pendingRequests, settled>>
  /\ UNCHANGED <<events, now, geVars, toolVars, fxVars, alertsPosted, subVars, mcpVars,
                 sseVars, wsOpen, requestId>>

\* the ids a message of the server may carry: none (0), issued ones, another
MessageIds == 0..(MaxCalls + 1)

RpcNext ==
  \/ McpConnect
  \/ McpDisconnect
  \/ \E method \in {"tools/list", "tools/call"} : CallMethod(method)
  \/ \E id \in MessageIds, error \in BOOLEAN : WsMessage(id, error)
  \/ \E id \in MessageIds : WsMessageIgnored(id)
  \/ \E id \in MessageIds : RpcTimeout(id)

\* every callback of setTimeout runs in the end
SpecRpc ==
  Init /\ [][RpcNext]_vars /\ \A id \in MessageIds : WF_vars(RpcTimeout(id))

SettledIds == {settled[i].id : i \in 1..Len(settled)}

\* the promises are settled at most once, no settled id is pending, and the
\* ids in use are ids callMethod has issued
SettledOnce ==
  /\ \A i, j \in 1..Len(settled) : settled[i].id = settled[j].id => i = j
  /\ pendingRequests \cap SettledIds = {}
  /\ (pendingRequests \cup SettledIds \cup rpcTimers) \subseteq 1..requestId
  /\ pendingRequests \subseteq rpcTimers

\* a step issues the id after the last one, and a step that settles a request
\* settles one pending request: the one a response names, or the one timed out
SettleStep ==
  /\ requestId' \in {requestId, requestId + 1}
  /\ pendingRequests' \ pendingRequests \subseteq {requestId + 1}
  /\ requestId' = requestId + 1 => requestId + 1 \notin (pendingRequests \cup SettledIds)
  /\ settled' # settled =>
       \E id \in pendingRequests :
         /\ pendingRequests' = pendingRequests \ {id}
         /\ Len(settled') = Len(settled) + 1
         /\ settled'[Len(settled')].id = id

\* C28: every wsCall uses a fresh, strictly increasing id; its promise is
\* settled exactly once, by the response of the same id or by the timeout, and
\* the id leaves pendingRequests when it settles; a response whose id is not
\* pending settles nothing; every request settles in the end
C28_SettlesOnce ==
  /\ []SettledOnce
  /\ [][SettleStep]_vars
  /\ \A id \in 1..MaxCalls : (id \in pendingRequests) ~> (id \in SettledIds)

\* C28 happens: one request settled by its response, one by the timeout, and a
\* third one issued
C28_Witness ==
  /\ requestId = 3
  /\ \E i, j \in 1..Len(settled) :
       settled[i].how = "resolved" /\ settled[j].how = "timeout"
  /\ pendingRequests # {}

\* ------------------------------------------------------------------------
\* tak_find_nearest while the TAK server receives reports (C29)
\* ------------------------------------------------------------------------
\* the events of the snapshot runs: uid, position and time vary
SnapshotEvents ==
  {[BaseEvent EXCEPT !.uid = u, !.lat = p, !.time = t] :
     u \in UIDs, p \in 0..MaxPos, t \in 1..MaxTime}

SnapshotParams ==
  {params \in NearestParams : params.maxDistance = None /\ params.entityTypes = None}

\* the TAK server receives reports before the call and between the two awaits
SnapshotNext ==
  \/ \E e \in SnapshotEvents : NoResult /\ ReceiveEvent(e)
  \/ \E params \in SnapshotParams : FindNearestCall(params)
  \/ FindNearestReturn

SpecSnapshot == Init /\ [][SnapshotNext]_vars

\* the step in which the handler called with point.entityId returns
ReturnsOfEntity ==
  /\ call.tool = "tak_find_nearest" /\ call.pc = "entities" /\ call'.pc = "done"
  /\ call.params.coordinates = None /\ call.params.entityId # None

\* C29 (as claimed): the reference coordinates of a call with point.entityId are
\* the position of that entity in the snapshot of entities that supplies the
\* candidates, and the reference entity is not among the results
C29_Original ==
  [][ReturnsOfEntity =>
       LET snapshot == GetEntities(events, NoParams, now)
           uid == The(call.params.entityId)
       IN /\ result'.referenceCoords = Coords(MapGet(snapshot, uid))
          /\ \A i \in 1..Len(result'.nearestEntities) :
               result'.nearestEntities[i].entity.uid # uid]_vars

====
